---- MODULE Spec2Model ----
(***************************************************************************)
(* Model of the opmate-ui admin dashboard: the Remote Data Gateway         *)
(* (direct_api_call), the dependent selector chains of the student,        *)
(* topic and subtopic pages, the assignment replacers, and the TTL cache   *)
(* with its invalidation on mutation and on navigation.                    *)
(*                                                                         *)
(* One user interaction (a widget change or a button click) together with  *)
(* the script rerun it triggers is one action.  A selectbox whose stored   *)
(* value is no longer among its options returns its default option; a      *)
(* widget the rerun does not render loses its stored value.                *)
(***************************************************************************)
EXTENDS Integers, Sequences, FiniteSets, TLC

VARIABLES
  view,   \* st.session_state.current_view
  db,     \* the lists the backend serves
  cache,  \* st.cache_data: list name -> entry
  us,     \* u_students_manage_page: widget values and rendered options
  ds,     \* show_student_crud_direct: session state and rendered options
  tl,     \* show_topics_by_level_page: widget values and rendered options
  tp,     \* the teacher page in view: widget values and rendered options
  last,   \* what the last interaction did: request sent, notice shown
  gw,     \* one direct_api_call: method, transport outcome, result
  cr      \* the create/update/delete page in view, and the pending confirmation

\* Python None / JSON null / a widget that was not rendered.  An optional
\* value is a sequence of length at most one.
None == << >>

Some(x) == <<x>>

Range(s) == {s[i] : i \in 1..Len(s)}

\* the elements of s that satisfy Test, in order (a list comprehension)
RECURSIVE SelectSeqBy(_, _)
SelectSeqBy(s, keep) ==
  IF s = << >> THEN << >>
  ELSE IF Head(s) \in keep THEN <<Head(s)>> \o SelectSeqBy(Tail(s), keep)
  ELSE SelectSeqBy(Tail(s), keep)

\* [f(x) for x in s]
MapSeq(s, F(_)) == [i \in 1..Len(s) |-> F(s[i])]

\* next(x for x in s if x in keep, None)
FirstIn(s, keep) ==
  LET hits == SelectSeqBy(s, keep) IN IF hits = << >> THEN None ELSE Some(Head(hits))

\* list(a_set): the elements in some order
RECURSIVE SetToSeq(_)
SetToSeq(S) ==
  IF S = {} THEN << >>
  ELSE LET x == CHOOSE y \in S : TRUE IN <<x>> \o SetToSeq(S \ {x})

\* ------------------------------------------------------------------------
\* Remote Data Gateway: direct_api_call
\* ------------------------------------------------------------------------

\* method values a caller can pass; PATCH stands for every unsupported one
Methods == {"GET", "POST", "PUT", "DELETE", "PATCH"}

\* HTTP statuses the backend answers with
Statuses == {200, 201, 204, 400, 404, 409, 500}

\* exception classes the transport raises, with the classes each one is an
\* instance of (the except clauses match on these)
ExcClasses == {"ConnectionError", "ConnectTimeout", "Timeout", "ReadTimeout",
               "TooManyRedirects", "RequestException"}

Ancestors(c) ==
  CASE c = "ConnectionError"  -> {"ConnectionError", "RequestException"}
    [] c = "ConnectTimeout"   -> {"ConnectTimeout", "ConnectionError", "Timeout", "RequestException"}
    [] c = "Timeout"          -> {"Timeout", "RequestException"}
    [] c = "ReadTimeout"      -> {"ReadTimeout", "Timeout", "RequestException"}
    [] c = "TooManyRedirects" -> {"TooManyRedirects", "RequestException"}
    [] c = "RequestException" -> {"RequestException"}
    [] c = "requests.JSONDecodeError" ->
         {"requests.JSONDecodeError", "json.JSONDecodeError", "InvalidJSONError", "RequestException"}
    [] OTHER                  -> {c}

\* what the transport does with one request
Outcomes ==
  [kind : {"response"}, status : Statuses, json : BOOLEAN, class : {"-"}]
    \cup [kind : {"exception"}, status : {0}, json : {FALSE}, class : ExcClasses]

\* a (statusCode, body) pair returned to the caller; parsed records whether
\* response.json() was called, notice whether st.error was shown
Ret(status, body, parsed, notice) ==
  [raised |-> FALSE, status |-> status, body |-> body, parsed |-> parsed, notice |-> notice]

\* an exception leaving the function
Raise(c) ==
  [raised |-> TRUE, status |-> 0, body |-> c, parsed |-> FALSE, notice |-> FALSE]

\* the except clauses of the outer try, in source order
OuterHandlers == <<"ConnectionError", "Timeout", "RequestException">>

\* a gateway without the catch-all RequestException clause
HandleTransportNoCatchAll(c) ==
  IF "ConnectionError" \in Ancestors(c) THEN Ret(503, "API service unavailable", FALSE, TRUE)
  ELSE IF "Timeout" \in Ancestors(c) THEN Ret(408, "API request timed out", FALSE, TRUE)
  ELSE Raise(c)

\* the first except clause the raised class is an instance of decides
HandleTransport(c) ==
  LET hits == {i \in 1..Len(OuterHandlers) : OuterHandlers[i] \in Ancestors(c)}
  IN IF hits = {} THEN Raise(c)
     ELSE LET h == OuterHandlers[CHOOSE i \in hits : \A j \in hits : i <= j]
          IN CASE h = "ConnectionError" -> Ret(503, "API service unavailable", FALSE, TRUE)
               [] h = "Timeout"         -> Ret(408, "API request timed out", FALSE, TRUE)
               [] OTHER                 -> Ret(500, "API request error", FALSE, TRUE)

\* a gateway that parses the body of a 204 like any other
ParseResponseNo204(o) ==
  IF o.json THEN Ret(o.status, "data", TRUE, FALSE)
  ELSE Ret(o.status, "Invalid JSON response from API", TRUE, FALSE)

\* 204 returns {} before any parse; otherwise response.json(), whose
\* JSONDecodeError the inner try turns into a message
ParseResponse(o) ==
  IF o.status = 204 THEN Ret(204, "{}", FALSE, FALSE)
  ELSE IF o.json THEN Ret(o.status, "data", TRUE, FALSE)
  ELSE IF "json.JSONDecodeError" \in Ancestors("requests.JSONDecodeError")
       THEN Ret(o.status, "Invalid JSON response from API", TRUE, FALSE)
       ELSE HandleTransport("requests.JSONDecodeError")

direct_api_call(method, o) ==
  IF method \notin {"GET", "POST", "PUT", "DELETE"}
  THEN Ret(400, "Unsupported HTTP method", FALSE, FALSE)
  ELSE IF o.kind = "exception" THEN HandleTransport(o.class)
  ELSE ParseResponse(o)

NoResult == [raised |-> FALSE, status |-> 0, body |-> "-", parsed |-> FALSE, notice |-> FALSE]

\* requests.<verb>(...); response.raise_for_status(); return response.json()
\* inside try/except RequestException, as the pages without the gateway do:
\* TRUE when a decoded body comes back, FALSE when the except branch runs
RequestsCallOk(o) ==
  /\ o.kind = "response"
  /\ o.status < 400
  /\ o.json

\* ------------------------------------------------------------------------
\* Backend data
\* ------------------------------------------------------------------------

\* number of milestones the backend holds
MaxMilestones == 3

\* number of subjects one submission of a teacher form selects at most
MaxSelected == 2

Gids == {1, 2, 3}
Oids == {1, 2, 3}
Mids == 1..MaxMilestones

\* decimal rendering of an id inside an f-string
Str(n) ==
  CASE n = 1 -> "1" [] n = 2 -> "2" [] n = 3 -> "3" [] n = 4 -> "4"
    [] n = 5 -> "5" [] n = 6 -> "6" [] n = 7 -> "7" [] n = 8 -> "8" [] OTHER -> "9"

Digits == {"1", "2", "3", "4", "5", "6", "7", "8", "9"}

\* int(token): the number a run of digits denotes
IntOf(tok) == CHOOSE n \in 1..9 : Str(n) = tok

LEVEL_MAPPING ==
  [G1 |-> <<"L1", "L2", "L3", "L4">>,
   G2 |-> <<"L5", "L6", "L7", "L8">>,
   G3 |-> <<"L9", "L10", "L11", "L12">>,
   G4 |-> <<"L13", "L14", "L15", "L16">>]

AllGurukuls ==
  <<[gid |-> 1, gname |-> "GA"], [gid |-> 2, gname |-> "GB"], [gid |-> 3, gname |-> "GC"]>>

AllOfferings ==
  <<[oid |-> 1, gid |-> 1, gtype |-> "G1"],
    [oid |-> 2, gid |-> 1, gtype |-> "G2"],
    [oid |-> 3, gid |-> 2, gtype |-> "G1"]>>

OfferingOf(oid) == CHOOSE o \in Range(AllOfferings) : o.oid = oid

\* the ways the milestones hang under the offerings: spread over all three
\* offerings, packed under the two offerings of Gurukul 1, all under the
\* offering of Gurukul 2
Placements ==
  {[i \in Mids |-> ((i - 1) % 3) + 1],
   [i \in Mids |-> ((i - 1) % 2) + 1],
   [i \in Mids |-> 3]}

\* milestone i under offering f[i]; the level is the i-th of the offering's
\* gtype, so levels are unique per offering
MilestonesFor(f) ==
  [i \in Mids |->
     [mid |-> i, oid |-> f[i], class |-> 1,
      level |-> LEVEL_MAPPING[OfferingOf(f[i]).gtype][i]]]

\* users with role student; user 2 has no user_role_link
AllStudentUsers ==
  <<[userid |-> 1, username |-> "sa", user_role_link |-> Some(1)],
    [userid |-> 2, username |-> "sb", user_role_link |-> None]>>

\* rows of GET /students; student 1 is assigned Gurukul 1 and milestone 1
AllDirectStudents ==
  <<[sid |-> 1, sname |-> "da", gurukulId |-> Some(1), milestoneId |-> Some(1)],
    [sid |-> 2, sname |-> "db", gurukulId |-> None, milestoneId |-> None]>>

\* GET /subjects; two subjects share a name, subject 4 has no level
AllSubjects ==
  <<[subid |-> 1, subname |-> "SA", level |-> Some("L1")],
    [subid |-> 2, subname |-> "SA", level |-> Some("L1")],
    [subid |-> 3, subname |-> "SC", level |-> Some("L2")],
    [subid |-> 4, subname |-> "SD", level |-> None]>>

\* GET /topics
AllTopics ==
  <<[tid |-> 1, tname |-> "TA", subid |-> 1],
    [tid |-> 2, tname |-> "TB", subid |-> 1],
    [tid |-> 3, tname |-> "TC", subid |-> 3]>>

\* GET /users?role=teacher; user 5 has no user_role_link
AllTeacherUsers ==
  <<[userid |-> 3, username |-> "ta", user_role_link |-> Some(1), assigned_subjects |-> <<1>>],
    [userid |-> 4, username |-> "tb", user_role_link |-> Some(2), assigned_subjects |-> <<3, 2>>],
    [userid |-> 5, username |-> "tc", user_role_link |-> None, assigned_subjects |-> << >>],
    [userid |-> 6, username |-> "td", user_role_link |-> Some(3), assigned_subjects |-> <<4, 1>>]>>

\* GET /teachers
AllDirectTeachers ==
  <<[teachid |-> 1, name |-> "ta", assigned_subjects |-> <<1>>],
    [teachid |-> 2, name |-> "tb", assigned_subjects |-> <<3, 2>>]>>

ListNames == {"students", "gurukuls", "offerings", "milestones", "dstudents", "by_gurukul",
              "subjects", "topics", "teachers", "dteachers"}

\* which list fetches of one rerun fail: none (backend up) or all (down)
FetchFailures == {{}, ListNames}

\* the transport outcomes a page's mutation request meets
PageOutcomes ==
  {o \in Outcomes :
     \/ o.kind = "response" /\ o.json /\ o.status \in {200, 201, 204, 409, 500}
     \/ o.kind = "response" /\ ~o.json /\ o.status \in {200, 204}
     \/ o.kind = "exception" /\ o.class = "ConnectionError"}

\* the lists one rerun obtains: a fetch that fails returns []
Fetched(failed) ==
  [students   |-> IF "students" \in failed THEN << >> ELSE db.students,
   gurukuls   |-> IF "gurukuls" \in failed THEN << >> ELSE db.gurukuls,
   offerings  |-> IF "offerings" \in failed THEN << >> ELSE db.offerings,
   milestones |-> IF "milestones" \in failed THEN << >> ELSE db.milestones,
   subjects   |-> IF "subjects" \in failed THEN << >> ELSE db.subjects,
   topics     |-> IF "topics" \in failed THEN << >> ELSE db.topics,
   teachers   |-> IF "teachers" \in failed THEN << >> ELSE db.teachers]

\* ------------------------------------------------------------------------
\* Widgets and display labels
\* ------------------------------------------------------------------------

\* a selectbox that keeps its stored value whatever the options are
selectbox_keeping_stored(options, stored, index) ==
  IF options = << >> THEN None
  ELSE IF stored # None THEN stored
  ELSE options[index]

\* st.selectbox: the stored value while it is among the options, else the
\* option at the default index; None without options
selectbox(options, stored, index) ==
  IF options = << >> THEN None
  ELSE IF stored \in Range(options) THEN stored
  ELSE options[index]

\* str.split(sep)[1]: the tokens after the first sep up to the next one
AfterSep(display, sep) ==
  LET at == {i \in 1..Len(display) : display[i] = sep}
  IN IF at = {} THEN << >>
     ELSE LET i == CHOOSE k \in at : \A j \in at : k <= j
              later == {j \in at : j > i}
              e == IF later = {} THEN Len(display) + 1
                   ELSE CHOOSE k \in later : \A j \in later : k <= j
          IN SubSeq(display, i + 1, e - 1)

\* int(display.split(sep)[1][:-1]): ok is FALSE where Python raises
SplitId(display, sep) ==
  LET part == AfterSep(display, sep)
  IN IF Len(part) = 2 /\ part[1] \in Digits /\ part[2] = ")"
     THEN [ok |-> TRUE, id |-> IntOf(part[1])]
     ELSE [ok |-> FALSE, id |-> 0]

\* re.search(key + r"\s*(\d+)", display): the digits after the first key
RegexId(display, key) ==
  LET at == {i \in 1..(Len(display) - 1) : display[i] = key /\ display[i + 1] \in Digits}
  IN IF at = {} THEN [ok |-> FALSE, id |-> 0]
     ELSE [ok |-> TRUE, id |-> IntOf(display[(CHOOSE k \in at : \A j \in at : k <= j) + 1])]

\* the tokens of the labels in Python string order
TokenOrder ==
  <<" (Class: ", " (ID: ", " (Level: ", " (OID: ", ")", ", ID: ", ", MID: ",
    "1", "2", "3", "4", "5", "6", "7", "8", "9",
    "G1", "G2", "G3", "G4", "GA", "GB", "GC", "L1", "L10", "L11", "L12", "L13", "L14",
    "L15", "L16", "L2", "L3", "L4", "L5", "L6", "L7", "L8", "L9",
    "Level ", "None", "SA", "SC", "SD", "TA", "TB", "TC", "sa", "sb", "ta", "tb", "tc">>

TokenRank(tok) == CHOOSE i \in 1..Len(TokenOrder) : TokenOrder[i] = tok

RECURSIVE LabelLess(_, _)
LabelLess(a, b) ==
  IF a = << >> THEN b # << >>
  ELSE IF b = << >> THEN FALSE
  ELSE IF Head(a) = Head(b) THEN LabelLess(Tail(a), Tail(b))
  ELSE TokenRank(Head(a)) < TokenRank(Head(b))

\* sorted(labels)
sorted(labels) == SortSeq(labels, LabelLess)

NoneGurukul == <<"None (Unassign Gurukul)">>
NoneMilestone == <<"None (Unassign Milestone)">>
NoneOffering == <<"None (Unassign Offering)">>

\* ------------------------------------------------------------------------
\* u_students_manage_page
\* ------------------------------------------------------------------------

US_StudentLabel(s) == <<s.username, " (ID: ", Str(s.userid), ")">>
US_GurukulLabel(g) == <<g.gname, " (ID: ", Str(g.gid), ")">>
US_OfferingLabel(o) == <<o.gtype, " (OID: ", Str(o.oid), ")">>
US_MilestoneLabel(m) == <<Str(m.class), " (Level: ", m.level, ", MID: ", Str(m.mid), ")">>

\* the dependents keep what the session last held for them
US_InitDependentsFromSession(w) == [offering |-> w.offering, milestone |-> w.milestone]

\* selected_offering_display = None; selected_milestone_display = None
US_InitDependents(w) == [offering |-> None, milestone |-> None]

\* nothing rendered
US_Blank ==
  [student |-> None, gurukul |-> None, offering |-> None, milestone |-> None,
   sOpts |-> << >>, gOpts |-> << >>, oOpts |-> << >>, mOpts |-> << >>,
   userid |-> None, button |-> FALSE]

\* Gurukuls that have at least one milestone through one of their offerings
GidsWithMilestones(lists) ==
  {o.gid : o \in {x \in Range(lists.offerings) :
                     \E m \in Range(lists.milestones) : m.oid = x.oid}}

\* the milestone dropdown lists the milestones of every offering
US_MilestonesForAnyOffering(lists, oid) == lists.milestones

\* [m for m in all_milestones if m['oid'] == selected_offering_id_for_filters]
US_MilestonesFor(lists, oid) ==
  SelectSeqBy(lists.milestones, {m \in Range(lists.milestones) : m.oid = oid})

\* the offering and milestone selectors, shown for a selected Gurukul
US_Dependents(lists, w, st, gSel) ==
  LET gid  == SplitId(gSel, " (ID: ").id
      offs == SelectSeqBy(lists.offerings, {o \in Range(lists.offerings) : o.gid = gid})
      oOpts == MapSeq(offs, US_OfferingLabel)
  IN IF oOpts = << >> THEN st
     ELSE LET oSel  == selectbox(oOpts, w.offering, 1)
              oid   == SplitId(oSel, " (OID: ").id
              mOpts == <<NoneMilestone>> \o
                         sorted(MapSeq(US_MilestonesFor(lists, oid), US_MilestoneLabel))
              mSel  == selectbox(mOpts, w.milestone, 1)
          IN [st EXCEPT !.offering = oSel, !.oOpts = oOpts,
                        !.milestone = mSel, !.mOpts = mOpts]

\* one run of the page script over the fetched lists and the stored widget
\* values w; the result holds what each widget returned and offered
US_Page(lists, w) ==
  IF lists.students = << >> THEN US_Blank
  ELSE
    LET sOpts == MapSeq(lists.students, US_StudentLabel)
        sSel  == selectbox(sOpts, w.student, 1)
        uid   == SplitId(sSel, " (ID: ").id
        sObj  == FirstIn(lists.students, {s \in Range(lists.students) : s.userid = uid})
        sid   == IF sObj = None THEN None ELSE sObj[1].user_role_link
        st1   == [US_Blank EXCEPT !.student = sSel, !.sOpts = sOpts, !.userid = Some(uid)]
        filtered == SelectSeqBy(lists.gurukuls,
                      {g \in Range(lists.gurukuls) : g.gid \in GidsWithMilestones(lists)})
    IN IF sid = None THEN st1
       ELSE IF lists.gurukuls = << >> \/ lists.offerings = << >> \/ lists.milestones = << >>
       THEN st1
       ELSE IF filtered = << >> THEN st1
       ELSE
         LET gOpts == <<NoneGurukul>> \o sorted(MapSeq(filtered, US_GurukulLabel))
             gSel  == selectbox(gOpts, w.gurukul, 1)
             st2   == [st1 EXCEPT !.gurukul = gSel, !.gOpts = gOpts, !.button = TRUE,
                                  !.offering = US_InitDependents(w).offering,
                                  !.milestone = US_InitDependents(w).milestone]
         IN IF gSel = NoneGurukul THEN st2
            ELSE US_Dependents(lists, w, st2, gSel)

\* a payload as a function from its keys; {} is the empty function
EmptyPayload == << >>

Put(payload, key, value) == (key :> value) @@ payload

\* the helper that leaves a key out when its id is None
update_payload_omitting_none(gurukul_id, milestone_id) ==
  LET p1 == IF gurukul_id # None THEN Put(EmptyPayload, "gurukul_id", gurukul_id)
            ELSE EmptyPayload
  IN IF milestone_id # None THEN Put(p1, "milestone_id", milestone_id) ELSE p1

\* the payload update_user_student_assignments builds
update_payload(gurukul_id, milestone_id) ==
  LET p1 == IF gurukul_id # None THEN Put(EmptyPayload, "gurukul_id", gurukul_id)
            ELSE IF gurukul_id = None THEN Put(EmptyPayload, "gurukul_id", None)
            ELSE EmptyPayload
  IN IF milestone_id # None THEN Put(p1, "milestone_id", milestone_id)
     ELSE IF milestone_id = None THEN Put(p1, "milestone_id", None)
     ELSE p1

\* what one interaction did; was is the Offering selection it started from,
\* picked the subjects selected in the form it submitted, o the answer to
\* the request and form what the handler of a create/update/delete page
\* had before it
NoLast == [op |-> "init", req |-> None, notice |-> "none", ok |-> FALSE, was |-> None,
           picked |-> << >>, o |-> None, form |-> None]

\* a handler that sends the request again when the write failed
SentRetrying(op, req, notice, ok) ==
  [NoLast EXCEPT !.op = op, !.req = IF ok THEN <<req>> ELSE <<req, req>>,
                 !.notice = notice, !.ok = ok]

\* an interaction that sent a request: last.req lists the mutation requests
\* of the interaction, one call and no loop around it
Sent(op, req, notice, ok) == [NoLast EXCEPT !.op = op, !.req = Some(req), !.notice = notice, !.ok = ok]

Request(method, endpoint, payload) ==
  [method |-> method, endpoint |-> endpoint, payload |-> payload]

\* the ids the click handler derives from the displays of this run
US_FinalGurukul(st) ==
  IF st.gurukul # NoneGurukul THEN Some(SplitId(st.gurukul, " (ID: ").id) ELSE None

US_FinalMilestone(st) ==
  IF st.offering # None /\ st.offering # NoneOffering
  THEN IF st.milestone # None /\ st.milestone # NoneMilestone
       THEN Some(RegexId(st.milestone, ", MID: ").id)
       ELSE None
  ELSE None

\* ------------------------------------------------------------------------
\* st.cache_data (ttl=60) in front of the list fetches of the direct pages
\* ------------------------------------------------------------------------

ByGurukulKey(gid) == "by_gurukul_" \o Str(gid)

PlainKeys == {"gurukuls", "offerings", "milestones", "dstudents", "subjects", "dteachers"}

CacheKeys == PlainKeys \cup {ByGurukulKey(g) : g \in Gids}

\* GET /milestones/by-gurukul/:gid as the backend answers it
MilestonesByGurukul(gid) ==
  SelectSeqBy(db.milestones,
    {m \in Range(db.milestones) :
       \E o \in Range(db.offerings) : o.oid = m.oid /\ o.gid = gid})

\* what the backend serves for a cached fetch function
Data(key) ==
  CASE key = "gurukuls"   -> db.gurukuls
    [] key = "offerings"  -> db.offerings
    [] key = "milestones" -> db.milestones
    [] key = "dstudents"  -> db.dstudents
    [] key = "subjects"   -> db.subjects
    [] key = "dteachers"  -> db.dteachers
    [] OTHER -> MilestonesByGurukul(CHOOSE g \in Gids : ByGurukulKey(g) = key)

FailName(key) == IF key \in PlainKeys THEN key ELSE "by_gurukul"

\* a cached fetch function called with an empty entry: the gateway is
\* called and the return value, the [] of a failed fetch included, is kept
Fill(c, key, failed) ==
  IF c[key] # None THEN c
  ELSE [c EXCEPT ![key] =
          Some([val |-> IF FailName(key) \in failed THEN << >> ELSE Data(key),
                stale |-> FALSE])]

Val(c, key) == c[key][1].val

NoCache == [k \in CacheKeys |-> None]

\* a clear that leaves the entries in place
cache_clear_skipped(c) == c

\* st.cache_data.clear()
cache_clear(c) == NoCache

\* a mutation the backend applied: every entry filled before it is now
\* older than the data
MarkStale(c) ==
  [k \in CacheKeys |-> IF c[k] = None THEN None ELSE Some([c[k][1] EXCEPT !.stale = TRUE])]

\* ------------------------------------------------------------------------
\* show_student_crud_direct
\* ------------------------------------------------------------------------

SelectMilestone == <<"-- Select Milestone --">>
SelectStudent == <<"-- Select Student --">>
EmptyName == <<"">>

DS_MilestoneLabel(m) ==
  <<"Level ", m.level, " (Class: ", Str(m.class), ", ID: ", Str(m.mid), ")">>
DS_StudentLabel(u) == <<u.sname, " (ID: ", Str(u.sid), ")">>
DS_GurukulName(g) == <<g.gname>>

\* {g['gname']: g['gid'] for g in gs}.get(name): the last entry of a name
GidByName(gs, name) ==
  LET hits == {i \in 1..Len(gs) : DS_GurukulName(gs[i]) = name}
  IN IF hits = {} THEN None
     ELSE Some(gs[CHOOSE i \in hits : \A j \in hits : j <= i].gid)

\* next((g['gid'] for g in gs if g['gname'] == name), None)
FirstGidByName(gs, name) ==
  LET hits == {i \in 1..Len(gs) : DS_GurukulName(gs[i]) = name}
  IN IF hits = {} THEN None
     ELSE Some(gs[CHOOSE i \in hits : \A j \in hits : i <= j].gid)

\* {label(m): m['mid'] for m in ms}.get(display)
MidByLabel(ms, display) ==
  LET hits == {i \in 1..Len(ms) : DS_MilestoneLabel(ms[i]) = display}
  IN IF hits = {} THEN None
     ELSE Some(ms[CHOOSE i \in hits : \A j \in hits : j <= i].mid)

\* initialize_direct_student_crud_states on a fresh session
DS_Blank ==
  [gname |-> EmptyName, gid |-> None, mname |-> SelectMilestone, mid |-> None,
   gOpts |-> << >>, mOpts |-> << >>, addForm |-> FALSE,
   student |-> None, sOpts |-> << >>, sid |-> None,
   ug |-> None, ugOpts |-> << >>, um |-> None, umOpts |-> << >>,
   finalG |-> None, finalM |-> None, updForm |-> FALSE]

\* an update form that offers the milestones of every Gurukul
DS_UpdMilestonesOfAll(c, finalG) ==
  IF finalG # None THEN Val(c, "milestones") ELSE << >>

\* milestones_for_update_gurukul: [] unless a Gurukul is chosen
DS_UpdMilestones(c, finalG) ==
  IF finalG # None THEN Val(c, ByGurukulKey(finalG[1])) ELSE << >>

\* the session fields of a run that has rendered no form yet
DS_Off(w) ==
  [w EXCEPT !.gname = EmptyName, !.mname = SelectMilestone,
            !.gOpts = << >>, !.mOpts = << >>, !.addForm = FALSE,
            !.student = None, !.sOpts = << >>,
            !.ug = None, !.ugOpts = << >>, !.um = None, !.umOpts = << >>,
            !.finalG = None, !.finalM = None, !.updForm = FALSE]

\* the milestone selector of the add form over the milestones ms fetched
\* for the Gurukul gid, and the ids recomputed from the two displays
DS_AddForm(c2, filtered, gSel, gid, ms, w) ==
  LET mOpts == <<SelectMilestone>> \o MapSeq(ms, DS_MilestoneLabel)
      mSel  == selectbox(mOpts, w.mname, 1)
  IN [ss |-> [DS_Off(w) EXCEPT !.gname = gSel, !.gid = gid,
                               !.gOpts = MapSeq(filtered, DS_GurukulName),
                               !.mname = mSel, !.mid = MidByLabel(ms, mSel),
                               !.mOpts = mOpts, !.addForm = TRUE],
      cache |-> c2, filtered |-> filtered]

\* fetch_milestones_by_gurukul for the Gurukul of the add form
DS_AddMilestones(c1, filtered, gSel, gid, failed, w) ==
  IF gid = None THEN DS_AddForm(c1, filtered, gSel, gid, << >>, w)
  ELSE DS_AddForm(Fill(c1, ByGurukulKey(gid[1]), failed), filtered, gSel, gid,
                  Val(Fill(c1, ByGurukulKey(gid[1]), failed), ByGurukulKey(gid[1])), w)

\* the Gurukul selector of the add form over the Gurukuls with milestones
DS_AddGurukul(c1, filtered, failed, w) ==
  IF filtered = << >> THEN [ss |-> DS_Off(w), cache |-> c1, filtered |-> filtered]
  ELSE DS_AddMilestones(c1, filtered,
         selectbox(MapSeq(filtered, DS_GurukulName), w.gname, 1),
         GidByName(filtered, selectbox(MapSeq(filtered, DS_GurukulName), w.gname, 1)),
         failed, w)

\* the Gurukuls that have a milestone under one of their offerings
DS_Filtered(c1) ==
  SelectSeqBy(Val(c1, "gurukuls"),
    {g \in Range(Val(c1, "gurukuls")) :
       g.gid \in GidsWithMilestones([offerings |-> Val(c1, "offerings"),
                                     milestones |-> Val(c1, "milestones")])})

\* the part of the script up to the add form; c0 is the cache the run
\* starts with
DS_AddPart(c0, failed, w) ==
  DS_AddGurukul(
    Fill(Fill(Fill(c0, "gurukuls", failed), "offerings", failed), "milestones", failed),
    DS_Filtered(
      Fill(Fill(Fill(c0, "gurukuls", failed), "offerings", failed), "milestones", failed)),
    failed, w)

\* the milestone selector of the update form and the id read back from
\* its display
DS_UpdForm(st1, obj, same, ug, ugOpts, finalG, c4, ms, w) ==
  LET curM == IF obj.milestoneId = None THEN None
              ELSE FirstIn(ms, {m \in Range(ms) : m.mid = obj.milestoneId[1]})
      umOpts == <<NoneMilestone>> \o MapSeq(ms, DS_MilestoneLabel)
      um == IF same /\ w.um \in Range(umOpts) /\ w.umOpts = umOpts THEN w.um
            ELSE IF curM = None THEN NoneMilestone ELSE DS_MilestoneLabel(curM[1])
  IN [ss |-> [st1 EXCEPT !.ug = ug, !.ugOpts = ugOpts, !.um = um,
                         !.umOpts = umOpts, !.finalG = finalG,
                         !.finalM = IF um # NoneMilestone /\ RegexId(um, ", ID: ").ok
                                    THEN Some(RegexId(um, ", ID: ").id) ELSE None,
                         !.updForm = TRUE],
      cache |-> c4]

\* the milestones fetched for the Gurukul chosen in the update form
DS_UpdFetch(st1, obj, same, ug, ugOpts, finalG, c3, failed, w) ==
  IF finalG = None
  THEN DS_UpdForm(st1, obj, same, ug, ugOpts, finalG, c3, DS_UpdMilestones(c3, finalG), w)
  ELSE DS_UpdForm(st1, obj, same, ug, ugOpts, finalG,
                  Fill(c3, ByGurukulKey(finalG[1]), failed),
                  DS_UpdMilestones(Fill(c3, ByGurukulKey(finalG[1]), failed), finalG), w)

\* final_gurukul_id_to_send: the id of the Gurukul display, None for
\* "None (Unassign Gurukul)"
DS_UpdFinalGurukul(filtered, st1, obj, same, ug, ugOpts, c3, failed, w) ==
  DS_UpdFetch(st1, obj, same, ug, ugOpts,
              IF ug # NoneGurukul THEN FirstGidByName(filtered, ug) ELSE None,
              c3, failed, w)

\* the Gurukul selector of the update form: the stored choice of the same
\* student, else the Gurukul the student is assigned to
DS_UpdGurukul(filtered, st1, obj, same, c3, failed, w) ==
  LET curG == IF obj.gurukulId = None THEN None
              ELSE FirstIn(filtered, {g \in Range(filtered) : g.gid = obj.gurukulId[1]})
      ugOpts == <<NoneGurukul>> \o MapSeq(filtered, DS_GurukulName)
  IN DS_UpdFinalGurukul(filtered, st1, obj, same,
       IF same /\ w.ug \in Range(ugOpts) THEN w.ug
       ELSE IF curG = None THEN NoneGurukul ELSE DS_GurukulName(curG[1]),
       ugOpts, c3, failed, w)

\* the sid of the student whose display is selected (the last one with
\* that display), None for "-- Select Student --"
DS_SelectedSid(students, sSel) ==
  LET hits == {i \in 1..Len(students) : DS_StudentLabel(students[i]) = sSel}
  IN IF hits = {} THEN None
     ELSE Some(students[CHOOSE i \in hits : \A j \in hits : j <= i].sid)

\* the student selector and, for a selected student, the update form
DS_UpdStudent(a, students, sSel, sid, c3, failed, w) ==
  LET st1 == [a.ss EXCEPT !.student = sSel, !.sid = sid,
                          !.sOpts = <<SelectStudent>> \o MapSeq(students, DS_StudentLabel)]
  IN IF sid = None THEN [ss |-> st1, cache |-> c3]
     ELSE DS_UpdGurukul(a.filtered, st1, CHOOSE u \in Range(students) : u.sid = sid[1],
                        w.sid = sid, c3, failed, w)

\* the student table and the student selector
DS_UpdStudents(a, students, sSel, c3, failed, w) ==
  IF students = << >> THEN [ss |-> a.ss, cache |-> c3]
  ELSE DS_UpdStudent(a, students, sSel, DS_SelectedSid(students, sSel), c3, failed, w)

\* the students fetched through the cache c3
DS_UpdList(a, students, c3, failed, w) ==
  DS_UpdStudents(a, students,
    selectbox(<<SelectStudent>> \o MapSeq(students, DS_StudentLabel), w.student, 1),
    c3, failed, w)

\* the part of the script below the add form: the student table, the
\* student selector and the update form of the selected student
DS_UpdPart(a, failed, w) ==
  DS_UpdList(a, Val(Fill(a.cache, "dstudents", failed), "dstudents"),
             Fill(a.cache, "dstudents", failed), failed, w)

\* the add part followed, when the add form was rendered, by the rest
DS_Rest(a, failed, w) ==
  IF ~a.ss.addForm THEN [ss |-> a.ss, cache |-> a.cache]
  ELSE DS_UpdPart(a, failed, w)

\* one full run of the page script
DS_Page(c0, failed, w) == DS_Rest(DS_AddPart(c0, failed, w), failed, w)

\* ------------------------------------------------------------------------
\* show_topics_by_level_page
\* ------------------------------------------------------------------------

SelectLevel == <<"--- Select a Level ---">>
SelectSubject == <<"--- Select a Subject ---">>

\* str(level) inside an f-string
LevelStr(level) == IF level = None THEN "None" ELSE level[1]

\* a display string that leaves the id out
SubjectLabelNoId(s) == <<s.subname, " (Level: ", LevelStr(s.level), ")">>

SubjectLabel(s) ==
  <<s.subname, " (Level: ", LevelStr(s.level), ", ID: ", Str(s.subid), ")">>

TL_Blank ==
  [level |-> None, lOpts |-> << >>, subject |-> None, sOpts |-> << >>,
   subid |-> None, topics |-> << >>]

\* filtered_subjects_by_level: every subject while no level is selected
TL_SubjectsFor(subjects, level) ==
  IF level = SelectLevel THEN subjects
  ELSE SelectSeqBy(subjects, {x \in Range(subjects) : x.level = Some(level[1])})

\* the topic table lists every topic whatever the subject selection
TL_TopicsUnfiltered(topics, subid) == topics

\* filtered_topics, computed only for a selected subject
TL_Topics(topics, subid) ==
  IF subid # None THEN SelectSeqBy(topics, {t \in Range(topics) : t.subid = subid[1]})
  ELSE << >>

\* one run of the page; keyed says whether the build keeps a keyed
\* selectbox's value when its options change and still hold it
TL_Page(lists, w, keyed) ==
  IF lists.subjects = << >> THEN TL_Blank
  ELSE
    LET levels == {x.level[1] : x \in {y \in Range(lists.subjects) : y.level # None}}
        lOpts == <<SelectLevel>> \o sorted(SetToSeq({<<l>> : l \in levels}))
        lSel  == selectbox(lOpts, w.level, 1)
        sOpts == <<SelectSubject>> \o
                   sorted(MapSeq(TL_SubjectsFor(lists.subjects, lSel), SubjectLabel))
        sSel  == IF keyed \/ w.sOpts = sOpts THEN selectbox(sOpts, w.subject, 1)
                 ELSE sOpts[1]
        subid == IF sSel # SelectSubject /\ RegexId(sSel, ", ID: ").ok
                 THEN Some(RegexId(sSel, ", ID: ").id) ELSE None
    IN [level |-> lSel, lOpts |-> lOpts, subject |-> sSel, sOpts |-> sOpts,
        subid |-> subid, topics |-> TL_Topics(lists.topics, subid)]

\* ------------------------------------------------------------------------
\* u_teachers_manage_page and show_teacher_crud_direct
\* ------------------------------------------------------------------------

SelectTeacher == <<"-- Select --">>

UT_TeacherLabel(t) == <<t.username, " (ID: ", Str(t.userid), ")">>
DT_TeacherLabel(t) == <<t.name, " (ID: ", Str(t.teachid), ")">>

\* nothing rendered
TP_Blank ==
  [teacher |-> None, tOpts |-> << >>, tid |-> None, form |-> FALSE,
   opts |-> << >>, dflt |-> << >>, sel |-> << >>]

\* q is something a user can have selected in a multiselect over opts
IsSelection(q, opts) ==
  /\ Len(q) <= MaxSelected
  /\ Range(q) \subseteq Range(opts)
  /\ \A i, j \in DOMAIN q : i < j => q[i] # q[j]

Selections(opts) ==
  {q \in UNION {[1..n -> Range(opts)] : n \in 0..MaxSelected} : IsSelection(q, opts)}

\* available_subjects_for_assignment_options: the subjects that have a
\* level, sorted by display
UT_Available(subjects) ==
  LET withLevel == SelectSeqBy(subjects, {x \in Range(subjects) : x.level # None})
      recs == MapSeq(withLevel, LAMBDA x : [display |-> SubjectLabel(x), subid |-> x.subid])
  IN SortSeq(recs, LAMBDA a, b : LabelLess(a.display, b.display))

\* the displays of the subjects the teacher is assigned now
Preselected(subjects, teacher) ==
  LET ids == teacher.assigned_subjects
      known == SelectSeqBy(ids, {i \in Range(ids) : \E x \in Range(subjects) : x.subid = i})
  IN MapSeq(known, LAMBDA i : SubjectLabel(CHOOSE x \in Range(subjects) : x.subid = i))

\* updated_subject_ids_payload: a fresh list with the subid of the first
\* option whose display equals each selected item
UT_PayloadIds(available, sel) ==
  LET known == SelectSeqBy(sel, {d \in Range(sel) :
                                   \E a \in Range(available) : a.display = d})
  IN MapSeq(known,
            LAMBDA d : available[CHOOSE i \in 1..Len(available) :
                                   /\ available[i].display = d
                                   /\ \A j \in 1..(i - 1) : available[j].display # d].subid)

\* [subject_display_to_obj_map[d]['subid'] for d in selected]: the dict
\* holds the last subject of each display
DT_PayloadIds(subjects, sel) ==
  MapSeq(sel,
         LAMBDA d : subjects[CHOOSE i \in 1..Len(subjects) :
                               /\ SubjectLabel(subjects[i]) = d
                               /\ \A j \in (i + 1)..Len(subjects) :
                                    SubjectLabel(subjects[j]) # d].subid)

\* one run of u_teachers_manage_page; keyed says whether the build keeps
\* the value of the keyed multiselect when its default changes. A default
\* that is not among the options makes st.multiselect raise: the run ends
\* inside the form, without a submit button
UT_Page(lists, w, keyed) ==
  IF lists.teachers = << >> THEN TP_Blank
  ELSE
    LET tOpts == MapSeq(lists.teachers, UT_TeacherLabel)
        tSel  == selectbox(tOpts, w.teacher, 1)
        uid   == SplitId(tSel, " (ID: ").id
        obj   == FirstIn(lists.teachers, {t \in Range(lists.teachers) : t.userid = uid})
        teachid == IF obj = None THEN None ELSE obj[1].user_role_link
        st1   == [TP_Blank EXCEPT !.teacher = tSel, !.tOpts = tOpts, !.tid = Some(uid)]
    IN IF teachid = None THEN st1
       ELSE LET opts == MapSeq(UT_Available(lists.subjects), LAMBDA a : a.display)
                dflt == Preselected(lists.subjects, obj[1])
                kept == w.form /\ w.opts = opts /\ (keyed \/ w.dflt = dflt)
            IN IF ~(Range(dflt) \subseteq Range(opts))
               THEN [st1 EXCEPT !.opts = opts, !.dflt = dflt]
               ELSE [st1 EXCEPT !.form = TRUE, !.opts = opts, !.dflt = dflt,
                                !.sel = IF kept THEN w.sel ELSE dflt]

\* one run of show_teacher_crud_direct from the teacher table down; the
\* form and its multiselect are keyed by the teacher id
DT_Page(c0, failed, w) ==
  LET c1 == Fill(Fill(c0, "subjects", failed), "dteachers", failed)
      subjects == Val(c1, "subjects")
      teachers == Val(c1, "dteachers")
  IN IF teachers = << >> THEN [ss |-> TP_Blank, cache |-> c1]
     ELSE
       LET tOpts == <<SelectTeacher>> \o MapSeq(teachers, DT_TeacherLabel)
           tSel  == selectbox(tOpts, w.teacher, 1)
           st1   == [TP_Blank EXCEPT !.teacher = tSel, !.tOpts = tOpts]
       IN IF tSel = SelectTeacher THEN [ss |-> st1, cache |-> c1]
          ELSE
            LET hits == {i \in 1..Len(teachers) : DT_TeacherLabel(teachers[i]) = tSel}
                tid  == teachers[CHOOSE i \in hits : \A j \in hits : j <= i].teachid
                obj  == FirstIn(teachers, {t \in Range(teachers) : t.teachid = tid})
                opts == sorted(SetToSeq({SubjectLabel(x) : x \in Range(subjects)}))
                dflt == Preselected(subjects, obj[1])
                kept == w.form /\ w.tid = Some(tid) /\ w.opts = opts /\ w.dflt = dflt
            IN [ss |-> [st1 EXCEPT !.tid = Some(tid), !.form = TRUE, !.opts = opts,
                                   !.dflt = dflt, !.sel = IF kept THEN w.sel ELSE dflt],
                cache |-> c1]

\* ------------------------------------------------------------------------
\* The create / update / delete pages.  Every run of these pages fetches
\* its lists anew; none of them uses st.cache_data.
\* ------------------------------------------------------------------------

\* the outcomes a request of these pages meets: a body with 200 or 409, an
\* empty 204, no connection
CrudOutcomes ==
  {o \in PageOutcomes :
     \/ o.kind = "response" /\ o.json /\ o.status \in {200, 409}
     \/ o.kind = "response" /\ ~o.json /\ o.status = 204
     \/ o.kind = "exception"}

\* what a text input holds at submit: nothing, the name of an existing
\* Gurukul, a new name
GkNames == {"", "GA", "GN"}

\* no page of this group rendered; confirm is confirm_delete_gurukul_id,
\* absent (None) until "Delete Gurukul" stores an id
CR_Blank ==
  [confirm |-> None,
   gkOpts |-> << >>, gkUpd |-> None, gkDel |-> None,
   tSubjOpts |-> << >>, tcSubj |-> None, tuSubj |-> None,
   tuTopicOpts |-> << >>, tuTopic |-> None, tuNewOpts |-> << >>,
   ocOpts |-> << >>, ocGur |-> None, ocGtypes |-> << >>,
   ouOpts |-> << >>, ouOff |-> None, ouGurOpts |-> << >>,
   mGurOpts |-> << >>, mcGur |-> None, mcOffOpts |-> << >>, mcOff |-> None,
   mcLevels |-> << >>, muGur |-> None, muOffOpts |-> << >>, muOff |-> None,
   muMilOpts |-> << >>, muMil |-> None, muLevels |-> << >>]

\* a page that is not rendered: its widgets lose their values, the
\* session key of the pending confirmation stays
CR_Left(w) == [CR_Blank EXCEPT !.confirm = w.confirm]

\* an interaction of one of these pages that sent no request
Refused(op, notice, form) ==
  [NoLast EXCEPT !.op = op, !.notice = notice, !.form = Some(form)]

\* an interaction that sent req and got o; shown is the text of the notice:
\* "exception" for str(e), "fixed" for a fixed sentence
Answered(op, req, o, ok, form) ==
  [NoLast EXCEPT !.op = op, !.req = Some(req), !.o = Some(o), !.ok = ok,
                 !.notice = IF ok THEN "success" ELSE "error", !.form = Some(form)]

\* delete_gurukul: raise_for_status, then status_code == 200
delete_call_ok(o) == o.kind = "response" /\ o.status < 400 /\ o.status = 200

GK_Label(g) == <<g.gname, " (ID: ", Str(g.gid), ")">>

\* gurukul_options.get(display): the gid of the last Gurukul with that display
GK_IdOf(gurukuls, display) ==
  LET hits == {i \in 1..Len(gurukuls) : GK_Label(gurukuls[i]) = display}
  IN IF hits = {} THEN None
     ELSE Some(gurukuls[CHOOSE i \in hits : \A j \in hits : j <= i].gid)

\* current_gname: the name the update form is pre-filled with
GK_CurrentName(gurukuls, gid) ==
  IF gid = None \/ FirstIn(gurukuls, {g \in Range(gurukuls) : g.gid = gid[1]}) = None
  THEN ""
  ELSE FirstIn(gurukuls, {g \in Range(gurukuls) : g.gid = gid[1]})[1].gname

\* one run of gurukul_manage_page: the two selectboxes over the fetched
\* Gurukuls
GK_Page(lists, w) ==
  [CR_Left(w) EXCEPT !.gkOpts = MapSeq(lists.gurukuls, GK_Label),
                     !.gkUpd = selectbox(MapSeq(lists.gurukuls, GK_Label), w.gkUpd, 1),
                     !.gkDel = selectbox(MapSeq(lists.gurukuls, GK_Label), w.gkDel, 1)]

\* a page that shows "Confirm Deletion" for a stored id whatever is selected
GK_ConfirmShownForAny(gurukuls, w) ==
  /\ gurukuls # << >>
  /\ w.confirm # None

\* "Confirm Deletion" is rendered
GK_ConfirmShown(gurukuls, w) ==
  /\ gurukuls # << >>
  /\ w.confirm # None
  /\ w.confirm = GK_IdOf(gurukuls, w.gkDel)

\* ------------------------------------------------------------------------
\* topics_manage_page
\* ------------------------------------------------------------------------

\* what the topic name input holds at submit: nothing, the name of an
\* existing topic, a new name
TopicNames == {"", "TB", "TC", "TN"}

\* what the image URL input holds at submit
ImageUrls == {"", "img"}

KeepCurrentSubject == <<"-- Keep Current Subject --">>

TM_SubjLabel(s) ==
  <<s.subname, " (Level: ", IF s.level = None THEN "None" ELSE s.level[1],
    ", ID: ", Str(s.subid), ")">>

TM_TopicLabel(t) == <<"ID: ", Str(t.tid), " (", t.tname, ")">>

\* re.search(r"ID: (\d+)", display) on the display of a subject selectbox
TM_IdOf(display) ==
  IF display = None \/ ~RegexId(display, ", ID: ").ok THEN None
  ELSE Some(RegexId(display, ", ID: ").id)

\* the names of the topics of every subject
topic_names_of_all_subjects(topics, subid) == {t.tname : t \in Range(topics)}

\* topic_subid_map.get(subid, set()): the names of the topics of a subject
topic_subid_map(topics, subid) == {t.tname : t \in {x \in Range(topics) : x.subid = subid}}

\* the names of the other topics of the target subject
existing_topics_in_target_subject(topics, subid, tid) ==
  {t.tname : t \in {x \in Range(topics) : x.subid = subid /\ x.tid # tid}}

\* no name is a duplicate
TM_CreateNeverDuplicate(tname, existing) == FALSE

\* the duplicate check of the create form
TM_CreateDuplicate(tname, existing) == tname \in existing

\* the duplicate check of the update form
TM_UpdateDuplicate(tname, subid, cur, existing) ==
  /\ tname # cur.tname \/ subid # cur.subid
  /\ tname \in existing

TM_Filtered(topics, subid) ==
  SortSeq(SelectSeqBy(topics, {t \in Range(topics) : Some(t.subid) = subid}),
          LAMBDA a, b : a.tid < b.tid)

\* topic_options_update.get(display)
TM_TopicIdOf(filtered, display) ==
  LET hits == {t \in Range(filtered) : TM_TopicLabel(t) = display}
  IN IF hits = {} THEN None ELSE Some((CHOOSE t \in hits : TRUE).tid)

\* next(t for t in all_topics if t['tid'] == selected_topic_id, None)
TM_Current(topics, tid) == FirstIn(topics, {t \in Range(topics) : Some(t.tid) = tid})

TM_ChangeOptions(subjects, cur) ==
  IF cur = None THEN << >>
  ELSE <<KeepCurrentSubject>>
       \o MapSeq(SelectSeqBy(subjects, {s \in Range(subjects) : s.subid # cur[1].subid}),
                 TM_SubjLabel)

\* the update section below the topic selectbox: the form of the selected
\* topic
TM_UpdForm(lists, w, filtered) ==
  [w EXCEPT !.tuNewOpts =
     TM_ChangeOptions(lists.subjects,
                      TM_Current(lists.topics, TM_TopicIdOf(filtered, w.tuTopic)))]

\* the update section below the filter selectbox
TM_UpdTopics(lists, w, filtered, stored) ==
  IF filtered = << >> THEN w
  ELSE TM_UpdForm(lists,
                  [w EXCEPT !.tuTopicOpts = MapSeq(filtered, TM_TopicLabel),
                            !.tuTopic = selectbox(MapSeq(filtered, TM_TopicLabel), stored, 1)],
                  filtered)

\* the update section: nothing of it without topics
TM_UpdPart(lists, w, stored) ==
  IF lists.topics = << >> THEN w
  ELSE TM_UpdTopics(lists,
                    [w EXCEPT !.tuSubj = selectbox(w.tSubjOpts, stored.tuSubj, 1)],
                    TM_Filtered(lists.topics,
                                TM_IdOf(selectbox(w.tSubjOpts, stored.tuSubj, 1))),
                    stored.tuTopic)

\* one run of topics_manage_page
TM_Page(lists, w) ==
  IF lists.subjects = << >> THEN CR_Left(w)
  ELSE TM_UpdPart(lists,
                  [CR_Left(w) EXCEPT
                     !.tSubjOpts = MapSeq(lists.subjects, TM_SubjLabel),
                     !.tcSubj = selectbox(MapSeq(lists.subjects, TM_SubjLabel), w.tcSubj, 1)],
                  w)

\* create_topic's payload: image_url only when it is not empty
TM_CreatePayload(tname, subid, image) ==
  IF image # ""
  THEN Put(Put(Put(EmptyPayload, "tname", tname), "subid", subid), "image_url", image)
  ELSE Put(Put(EmptyPayload, "tname", tname), "subid", subid)

\* the request goes out whatever the form holds
TM_CreateResultUnvalidated(topics, subid, tname, image, o) ==
  Answered("tm_create",
           Request("POST", <<"/topics">>, TM_CreatePayload(tname, subid[1], image)),
           o, RequestsCallOk(o),
           [why |-> "sent", tname |-> tname, subid |-> subid, topics |-> topics])

\* what "Create Topic" does with the typed name and the selected subject
TM_CreateResult(topics, subid, tname, image, o) ==
  IF tname = "" \/ subid = None
  THEN Refused("tm_create", "warning",
               [why |-> "required", tname |-> tname, subid |-> subid, topics |-> topics])
  ELSE IF TM_CreateDuplicate(tname, topic_subid_map(topics, subid[1]))
  THEN Refused("tm_create", "warning",
               [why |-> "duplicate", tname |-> tname, subid |-> subid, topics |-> topics])
  ELSE Answered("tm_create",
                Request("POST", <<"/topics">>, TM_CreatePayload(tname, subid[1], image)),
                o, RequestsCallOk(o),
                [why |-> "sent", tname |-> tname, subid |-> subid, topics |-> topics])

\* new_subid_for_update: the current subject unless another one is chosen
\* and its display holds an id
TM_NewSubid(display, cur) ==
  IF display # KeepCurrentSubject /\ TM_IdOf(display) # None THEN TM_IdOf(display)[1]
  ELSE cur.subid

\* current_topic_obj.get('image_url', ''): GET /topics carries no image_url
TM_InitialImage(cur) == ""

\* the fields that differ from the current topic
TM_Changed(tname, subid, image, cur) ==
  LET p1 == IF tname # cur.tname THEN Put(EmptyPayload, "tname", tname) ELSE EmptyPayload
      p2 == IF subid # cur.subid THEN Put(p1, "subid", subid) ELSE p1
  IN IF image # TM_InitialImage(cur) THEN Put(p2, "image_url", image) ELSE p2

\* the changed fields and nothing else
TM_UpdatePayloadChangedOnly(changed, cur) == changed

\* the payload sent: subid is added when it did not change
TM_UpdatePayload(changed, cur) ==
  IF "subid" \notin DOMAIN changed THEN Put(changed, "subid", cur.subid) ELSE changed

\* the submitted form, the current topic and the topics fetched by the run
TM_UpdateForm(why, tname, subid, image, cur, topics) ==
  [why |-> why, tname |-> tname, subid |-> subid, image |-> image, cur |-> cur,
   topics |-> topics]

\* what "Update Topic" does with the form of the topic cur
TM_UpdateResult(topics, cur, tname, subid, image, o) ==
  IF tname = ""
  THEN Refused("tm_update", "warning", TM_UpdateForm("required", tname, subid, image, cur, topics))
  ELSE IF TM_UpdateDuplicate(tname, subid, cur,
                             existing_topics_in_target_subject(topics, subid, cur.tid))
  THEN Refused("tm_update", "warning", TM_UpdateForm("duplicate", tname, subid, image, cur, topics))
  ELSE IF TM_Changed(tname, subid, image, cur) = EmptyPayload
  THEN Refused("tm_update", "info", TM_UpdateForm("unchanged", tname, subid, image, cur, topics))
  ELSE Answered("tm_update",
                Request("PUT", <<"/topics/", Str(cur.tid)>>,
                        TM_UpdatePayload(TM_Changed(tname, subid, image, cur), cur)),
                o, RequestsCallOk(o), TM_UpdateForm("sent", tname, subid, image, cur, topics))

\* ------------------------------------------------------------------------
\* offerings_manage_page
\* ------------------------------------------------------------------------

ALL_GTYPES == <<"G1", "G2", "G3", "G4">>

\* most offerings the backend holds
MaxOfferings == 5

\* gurukul_offerings_map.get(gid, set()): the gtypes a Gurukul has
gurukul_offerings_map(offerings, gid) ==
  {x.gtype : x \in {y \in Range(offerings) : y.gid = gid}}

\* the Gurukuls that lack a gtype, sorted by name (names are distinct and
\* open the label, so the labels are in that order)
creatable_gurukuls(lists) ==
  sorted(MapSeq(SelectSeqBy(lists.gurukuls,
                            {g \in Range(lists.gurukuls) :
                               ~(Range(ALL_GTYPES) \subseteq
                                   gurukul_offerings_map(lists.offerings, g.gid))}),
                GK_Label))

\* int(display.split("(ID: ")[1][:-1])
OF_GidOf(display) == IF display = None THEN None ELSE Some(SplitId(display, " (ID: ").id)

\* every gtype, whatever the Gurukul has
gtypes_unfiltered(offerings, gid) ==
  IF gid = None THEN << >> ELSE ALL_GTYPES

\* available_gtypes_for_creation_current_selection
available_gtypes(offerings, gid) ==
  IF gid = None THEN << >>
  ELSE SelectSeqBy(ALL_GTYPES, Range(ALL_GTYPES) \ gurukul_offerings_map(offerings, gid[1]))

\* gurukul_id_to_name_map.get(gid, 'N/A')
OF_GurukulName(gurukuls, gid) ==
  IF \E g \in Range(gurukuls) : g.gid = gid
  THEN (CHOOSE g \in Range(gurukuls) : g.gid = gid).gname
  ELSE "N/A"

OF_Label(gurukuls, x) ==
  <<"ID: ", Str(x.oid), " (", x.gtype, " for ", OF_GurukulName(gurukuls, x.gid), ")">>

OF_Sorted(offerings) == SortSeq(offerings, LAMBDA a, b : a.oid < b.oid)

OF_Labels(lists) ==
  [i \in 1..Len(lists.offerings) |-> OF_Label(lists.gurukuls, OF_Sorted(lists.offerings)[i])]

\* the offering whose display is selected
OF_Current(lists, display) ==
  FirstIn(lists.offerings,
          {x \in Range(lists.offerings) : OF_Label(lists.gurukuls, x) = display})

\* the create section: the Gurukul selectbox and the gtypes of the form
OF_CreatePart(lists, w, opts, stored) ==
  IF opts = << >> THEN w
  ELSE [w EXCEPT !.ocOpts = opts,
                 !.ocGur = selectbox(opts, stored, 1),
                 !.ocGtypes = available_gtypes(lists.offerings,
                                               OF_GidOf(selectbox(opts, stored, 1)))]

\* the update section: the offering selectbox and the Gurukuls of the form
OF_UpdPart(lists, w, stored) ==
  IF lists.offerings = << >> THEN w
  ELSE [w EXCEPT !.ouOpts = OF_Labels(lists),
                 !.ouOff = selectbox(OF_Labels(lists), stored, 1),
                 !.ouGurOpts = MapSeq(lists.gurukuls, GK_Label)]

\* one run of offerings_manage_page
OF_Page(lists, w) ==
  OF_UpdPart(lists, OF_CreatePart(lists, CR_Left(w), creatable_gurukuls(lists), w.ocGur),
             w.ouOff)

\* new_gtype, new_level, updated_level: the selectbox of a form, None
\* without options
OF_NewGtype(options, chosen) ==
  IF options = << >> THEN None ELSE Some(selectbox(options, chosen, 1))

\* a failed create leaves no notice
OF_CreateResultSilent(offerings, gid, gtype, o) ==
  [Answered("of_create",
            Request("POST", <<"/gurukul-offerings">>,
                    Put(Put(EmptyPayload, "gid", gid[1]), "gtype", gtype[1])),
            o, RequestsCallOk(o),
            [why |-> "sent", gid |-> gid, gtype |-> gtype, offerings |-> offerings])
     EXCEPT !.notice = IF RequestsCallOk(o) THEN "success" ELSE "none"]

\* what "Create Offering" does with the selected Gurukul and gtype
OF_CreateResult(offerings, gid, gtype, o) ==
  IF gid = None \/ gtype = None
  THEN Refused("of_create", "warning",
               [why |-> "required", gid |-> gid, gtype |-> gtype, offerings |-> offerings])
  ELSE Answered("of_create",
                Request("POST", <<"/gurukul-offerings">>,
                        Put(Put(EmptyPayload, "gid", gid[1]), "gtype", gtype[1])),
                o, RequestsCallOk(o),
                [why |-> "sent", gid |-> gid, gtype |-> gtype, offerings |-> offerings])

\* what "Update Offering" does with the form of the offering cur
OF_UpdateResult(offerings, cur, gid, gtype, o) ==
  IF cur = None \/ gid = None
  THEN Refused("of_update", "warning",
               [why |-> "required", gid |-> gid, gtype |-> gtype, cur |-> cur,
                offerings |-> offerings])
  ELSE Answered("of_update",
                Request("PUT", <<"/gurukul-offerings/", Str(cur[1].oid)>>,
                        Put(Put(EmptyPayload, "gid", gid[1]), "gtype", gtype)),
                o, RequestsCallOk(o),
                [why |-> "sent", gid |-> gid, gtype |-> gtype, cur |-> cur,
                 offerings |-> offerings])

\* the backend keeps gtype unique per Gurukul: POST /gurukul-offerings is
\* accepted exactly when the Gurukul has no offering of that gtype
BackendAccepts(offerings, payload) ==
  payload["gtype"] \notin gurukul_offerings_map(offerings, payload["gid"])

\* the answers of the backend to POST /gurukul-offerings: the created
\* offering, a conflict, or none at all
BackendAnswers(offerings, payload) ==
  {o \in CrudOutcomes :
     \/ o.kind = "exception"
     \/ o.kind = "response" /\ o.json
        /\ (o.status = 200 <=> BackendAccepts(offerings, payload))}

\* the offerings after the backend answered o
BackendOfferings(offerings, payload, o) ==
  IF o.kind = "response" /\ o.status = 200
  THEN Append(offerings, [oid |-> Len(offerings) + 1, gid |-> payload["gid"],
                          gtype |-> payload["gtype"]])
  ELSE offerings

\* ------------------------------------------------------------------------
\* milestones_manage_page
\* ------------------------------------------------------------------------

\* what the class inputs hold at submit
Classes == {1, 2}

ML_OffLabel(x) == <<"OID: ", Str(x.oid), " (Type: ", x.gtype, ")">>

ML_MilLabel(m) == <<"ID: ", Str(m.mid), " (Level: ", m.level, ")">>

\* int(display.split("OID: ")[1].split(" ")[0]): the digits after "OID: "
ML_OidOf(display) ==
  IF display = None THEN None ELSE Some(RegexId(display, "OID: ").id)

\* the offerings of the selected Gurukul, in the order fetched
ML_Filtered(offerings, gid) ==
  SelectSeqBy(offerings, {x \in Range(offerings) : Some(x.gid) = gid})

\* offering_id_to_details_map.get(oid, {}).get('gtype')
ML_Gtype(offerings, oid) ==
  IF oid = None \/ ~(\E x \in Range(offerings) : x.oid = oid[1]) THEN None
  ELSE Some((CHOOSE x \in Range(offerings) : x.oid = oid[1]).gtype)

\* LEVEL_MAPPING.get(gtype, [])
ML_LevelsOf(gtype) ==
  IF gtype = None \/ gtype[1] \notin DOMAIN LEVEL_MAPPING THEN << >>
  ELSE LEVEL_MAPPING[gtype[1]]

\* list.sort() of level names: the order of Python strings
ML_Sort(levels) == SortSeq(levels, LAMBDA a, b : TokenRank(a) < TokenRank(b))

\* the levels of the gtype, whatever the offering has
levels_unfiltered(lists, oid) == ML_Sort(ML_LevelsOf(ML_Gtype(lists.offerings, oid)))

\* available_levels_for_creation_current_selection
available_levels(lists, oid) ==
  ML_Sort(SelectSeqBy(ML_LevelsOf(ML_Gtype(lists.offerings, oid)),
                      {lvl \in Range(ML_LevelsOf(ML_Gtype(lists.offerings, oid))) :
                         ~(\E m \in Range(lists.milestones) :
                             Some(m.oid) = oid /\ m.level = lvl)}))

\* the milestones of the selected offering, sorted by mid
ML_Milestones(milestones, oid) ==
  SortSeq(SelectSeqBy(milestones, {m \in Range(milestones) : Some(m.oid) = oid}),
          LAMBDA a, b : a.mid < b.mid)

\* current_milestone_obj: the milestone whose display is selected
ML_Current(milestones, display) ==
  FirstIn(milestones, {m \in Range(milestones) : ML_MilLabel(m) = display})

\* an update form that treats the milestone's own level as taken
levels_for_update_without_own(lists, cur) ==
  IF cur = None THEN << >>
  ELSE ML_Sort(SelectSeqBy(
         ML_LevelsOf(ML_Gtype(lists.offerings, Some(cur[1].oid))),
         {lvl \in Range(ML_LevelsOf(ML_Gtype(lists.offerings, Some(cur[1].oid)))) :
            ~(\E m \in Range(lists.milestones) : m.oid = cur[1].oid /\ m.level = lvl)}))

\* available_levels_for_update: the levels of the gtype of the milestone's
\* offering without the levels of the keys (oid, level) of that offering in
\* milestone_oid_level_map; the key of the milestone's own level is left
\* out of the taken ones when the map (the last milestone of a key) gives
\* the selected milestone for it
available_levels_for_update(lists, cur) ==
  IF cur = None THEN << >>
  ELSE ML_Sort(SelectSeqBy(
         ML_LevelsOf(ML_Gtype(lists.offerings, Some(cur[1].oid))),
         {lvl \in Range(ML_LevelsOf(ML_Gtype(lists.offerings, Some(cur[1].oid)))) :
            ~(\E i \in 1..Len(lists.milestones) :
                /\ lists.milestones[i].oid = cur[1].oid
                /\ lists.milestones[i].level = lvl
                /\ \A j \in (i + 1)..Len(lists.milestones) :
                      ~(lists.milestones[j].oid = cur[1].oid /\ lists.milestones[j].level = lvl)
                /\ ~(lvl = cur[1].level /\ lists.milestones[i].mid = cur[1].mid))}))

\* the update section below the milestone selectbox: the levels of the form
ML_UpdLevels(lists, w) ==
  [w EXCEPT !.muLevels = available_levels_for_update(lists,
                                                     ML_Current(lists.milestones, w.muMil))]

\* the update section below the offering selectbox
ML_UpdMil(lists, w, mils, stored) ==
  IF mils = << >> THEN w
  ELSE ML_UpdLevels(lists,
                    [w EXCEPT !.muMilOpts = MapSeq(mils, ML_MilLabel),
                              !.muMil = selectbox(MapSeq(mils, ML_MilLabel), stored.muMil, 1)])

\* the update section below the Gurukul selectbox
ML_UpdOff(lists, w, filtered, stored) ==
  IF filtered = << >> THEN w
  ELSE ML_UpdMil(lists,
                 [w EXCEPT !.muOffOpts = MapSeq(filtered, ML_OffLabel),
                           !.muOff = selectbox(MapSeq(filtered, ML_OffLabel), stored.muOff, 1)],
                 ML_Milestones(lists.milestones,
                               ML_OidOf(selectbox(MapSeq(filtered, ML_OffLabel),
                                                  stored.muOff, 1))),
                 stored)

\* the update section: nothing of it without milestones
ML_UpdPart(lists, w, stored) ==
  IF lists.milestones = << >> THEN w
  ELSE ML_UpdOff(lists,
                 [w EXCEPT !.muGur = selectbox(w.mGurOpts, stored.muGur, 1)],
                 ML_Filtered(lists.offerings, OF_GidOf(selectbox(w.mGurOpts, stored.muGur, 1))),
                 stored)

\* the create section below the Gurukul selectbox; the page ends there when
\* the Gurukul has no offering
ML_CreateOff(lists, w, filtered, stored) ==
  IF filtered = << >> THEN w
  ELSE ML_UpdPart(lists,
                  [w EXCEPT !.mcOffOpts = MapSeq(filtered, ML_OffLabel),
                            !.mcOff = selectbox(MapSeq(filtered, ML_OffLabel), stored.mcOff, 1),
                            !.mcLevels =
                              available_levels(lists,
                                               ML_OidOf(selectbox(MapSeq(filtered, ML_OffLabel),
                                                                  stored.mcOff, 1)))],
                  stored)

\* one run of milestones_manage_page
ML_Page(lists, w) ==
  IF lists.gurukuls = << >> THEN CR_Left(w)
  ELSE ML_CreateOff(lists,
                    [CR_Left(w) EXCEPT
                       !.mGurOpts = MapSeq(lists.gurukuls, GK_Label),
                       !.mcGur = selectbox(MapSeq(lists.gurukuls, GK_Label), w.mcGur, 1)],
                    ML_Filtered(lists.offerings,
                                OF_GidOf(selectbox(MapSeq(lists.gurukuls, GK_Label),
                                                   w.mcGur, 1))),
                    w)

\* what "Create Milestone" does with the selected offering and the form
ML_CreateResult(lists, oid, class, level, o) ==
  IF oid = None \/ level = None
  THEN Refused("ml_create", "warning",
               [why |-> "required", oid |-> oid, level |-> level, lists |-> lists])
  ELSE Answered("ml_create",
                Request("POST", <<"/milestones">>,
                        Put(Put(Put(EmptyPayload, "class", class), "level", level[1]),
                            "oid", oid[1])),
                o, RequestsCallOk(o),
                [why |-> "sent", oid |-> oid, level |-> level, lists |-> lists])

\* a payload that carries oid whether or not the level changed
ML_ChangedWithOid(class, level, cur) ==
  LET p1 == IF class # cur.class THEN Put(EmptyPayload, "class", class) ELSE EmptyPayload
  IN IF level # cur.level THEN Put(Put(p1, "level", level), "oid", cur.oid)
     ELSE Put(p1, "oid", cur.oid)

\* the fields of the update payload: class when it differs, level when it
\* differs and then oid with it
ML_Changed(class, level, cur) ==
  LET p1 == IF class # cur.class THEN Put(EmptyPayload, "class", class) ELSE EmptyPayload
  IN IF level # cur.level THEN Put(Put(p1, "level", level), "oid", cur.oid) ELSE p1

ML_UpdateForm(why, class, level, cur, lists) ==
  [why |-> why, class |-> class, level |-> level, cur |-> cur, lists |-> lists]

\* what "Update Milestone" does with the form of the milestone cur
ML_UpdateResult(lists, cur, class, level, o) ==
  IF cur = None \/ level = None
  THEN Refused("ml_update", "warning", ML_UpdateForm("required", class, level, cur, lists))
  ELSE IF ML_Changed(class, level[1], cur[1]) = EmptyPayload
  THEN Refused("ml_update", "info", ML_UpdateForm("unchanged", class, level, cur, lists))
  ELSE Answered("ml_update",
                Request("PUT", <<"/milestones/", Str(cur[1].mid)>>,
                        ML_Changed(class, level[1], cur[1])),
                o, RequestsCallOk(o), ML_UpdateForm("sent", class, level, cur, lists))

\* the page of view v run over lists
CR_Page(v, lists, w) ==
  CASE v = "gurukuls_page" -> GK_Page(lists, w)
    [] v = "topics_page" -> TM_Page(lists, w)
    [] v = "offerings_page" -> OF_Page(lists, w)
    [] v = "milestones_page" -> ML_Page(lists, w)
    [] OTHER -> CR_Left(w)

vars == <<view, db, cache, us, ds, tl, tp, last, gw, cr>>

\* the views with selector chains, and the Gurukul page
ChainViews == {"admin_dashboard", "u_students_page", "direct_student_crud",
               "topics_by_level_page", "gurukuls_page"}

\* the views with assignment replacers
TeacherViews == {"admin_dashboard", "u_teachers_page", "direct_teacher_crud"}

\* the views with create, update and delete forms
CrudViews == {"admin_dashboard", "gurukuls_page", "topics_page", "offerings_page",
              "milestones_page"}

Views == ChainViews \cup TeacherViews \cup CrudViews

\* ------------------------------------------------------------------------
\* Actions
\* ------------------------------------------------------------------------

\* the user picks an option of one selectbox; the script reruns
US_Select(which, value, failed) ==
  /\ view = "u_students_page"
  /\ value \in Range(CASE which = "student"  -> us.sOpts
                       [] which = "gurukul"  -> us.gOpts
                       [] which = "offering" -> us.oOpts
                       [] OTHER              -> us.mOpts)
  /\ value # us[which]
  /\ us' = US_Page(Fetched(failed), [us EXCEPT ![which] = value])
  /\ last' = [NoLast EXCEPT !.op = "us_select_" \o which, !.was = us.offering]
  /\ UNCHANGED <<view, db, cache, ds, tl, tp, gw, cr>>

\* "Assign Gurukul & Milestone": the script reruns, the handler derives the
\* ids, and either warns or sends PUT /users/:id; st.rerun() on success
US_ClickAssign(failed, o) ==
  /\ view = "u_students_page"
  /\ us.button
  /\ \E st \in {US_Page(Fetched(failed), us)} :
     LET g  == US_FinalGurukul(st)
         m  == US_FinalMilestone(st)
     IN IF ~st.button
        THEN /\ us' = st
             /\ last' = [NoLast EXCEPT !.op = "us_assign_gone"]
        ELSE IF g = None /\ m = None
        THEN /\ us' = st
             /\ last' = [NoLast EXCEPT !.op = "us_assign", !.notice = "warning"]
        ELSE LET payload == update_payload(g, m)
                 req == Request("PUT", <<"/users/", Str(st.userid[1])>>, payload)
             IN IF payload = EmptyPayload
                THEN /\ us' = st
                     /\ last' = [NoLast EXCEPT !.op = "us_assign", !.notice = "warning"]
                ELSE IF RequestsCallOk(o)
                THEN /\ us' = US_Page(Fetched(failed), st)
                     /\ last' = Sent("us_assign", req, "success", TRUE)
                ELSE /\ us' = st
                     /\ last' = Sent("us_assign", req, "error", FALSE)
  /\ cache' = IF last'.ok THEN MarkStale(cache) ELSE cache
  /\ UNCHANGED <<view, db, ds, tl, tp, gw, cr>>

\* the session state a page leaves behind: widget values go, the keys the
\* script assigned itself stay
DS_Left(w) ==
  [DS_Blank EXCEPT !.gid = w.gid, !.mid = w.mid, !.sid = w.sid]

\* a sidebar button: set_view stores the view and clears the cache; the
\* page of the new view runs; the widgets of the page that is left are not
\* rendered and lose their values
set_view(v, failed) ==
  /\ v \in Views
  /\ v # view
  /\ view' = v
  /\ us' = IF v = "u_students_page" THEN US_Page(Fetched(failed), US_Blank) ELSE US_Blank
  /\ tl' = IF v = "topics_by_level_page" THEN TL_Page(Fetched(failed), TL_Blank, TRUE)
           ELSE TL_Blank
  /\ CASE v = "direct_student_crud" ->
            \E r \in {DS_Page(cache_clear(cache), failed, DS_Left(ds))} :
               ds' = r.ss /\ tp' = TP_Blank /\ cache' = r.cache
       [] v = "direct_teacher_crud" ->
            \E r \in {DT_Page(cache_clear(cache), failed, TP_Blank)} :
               ds' = DS_Left(ds) /\ tp' = r.ss /\ cache' = r.cache
       [] v = "u_teachers_page" ->
            /\ ds' = DS_Left(ds)
            /\ tp' = UT_Page(Fetched(failed), TP_Blank, TRUE)
            /\ cache' = cache_clear(cache)
       [] OTHER ->
            ds' = DS_Left(ds) /\ tp' = TP_Blank /\ cache' = cache_clear(cache)
  /\ last' = [NoLast EXCEPT !.op = "set_view"]
  /\ cr' = CR_Page(v, Fetched(failed), CR_Left(cr))
  /\ UNCHANGED <<db, gw>>

\* ttl=60: a minute without a fetch passes and every entry has expired
CacheExpire ==
  /\ cache # NoCache
  /\ cache' = NoCache
  /\ last' = [NoLast EXCEPT !.op = "expire"]
  /\ UNCHANGED <<view, db, us, ds, tl, tp, gw, cr>>

\* the add form's Gurukul selectbox: on_direct_add_gurukul_change runs,
\* then the script
DS_SelectAddGurukul(name, failed) ==
  /\ view = "direct_student_crud"
  /\ ds.addForm
  /\ name \in Range(ds.gOpts)
  /\ name # ds.gname
  /\ LET c1 == Fill(cache, "gurukuls", failed)
         w  == [ds EXCEPT !.gname = name, !.gid = GidByName(Val(c1, "gurukuls"), name),
                          !.mname = SelectMilestone, !.mid = None]
     IN \E r \in {DS_Page(cache_clear(c1), failed, w)} :
          ds' = r.ss /\ cache' = r.cache
  /\ last' = [NoLast EXCEPT !.op = "ds_add_gurukul"]
  /\ UNCHANGED <<view, db, us, tl, tp, gw, cr>>

\* the add form's milestone selectbox: on_direct_add_milestone_change
\* runs, then the script
DS_SelectAddMilestone(label, failed) ==
  /\ view = "direct_student_crud"
  /\ ds.addForm
  /\ label \in Range(ds.mOpts)
  /\ label # ds.mname
  /\ LET c1 == IF ds.gid # None THEN Fill(cache, ByGurukulKey(ds.gid[1]), failed) ELSE cache
         ms == IF ds.gid # None THEN Val(c1, ByGurukulKey(ds.gid[1])) ELSE << >>
         w  == [ds EXCEPT !.mname = label, !.mid = MidByLabel(ms, label)]
     IN \E r \in {DS_Page(c1, failed, w)} :
          ds' = r.ss /\ cache' = r.cache
  /\ last' = [NoLast EXCEPT !.op = "ds_add_milestone"]
  /\ UNCHANGED <<view, db, us, tl, tp, gw, cr>>

\* "Add Student": the handler sits between the add form and the student
\* table; filled says whether name and email were entered
DS_ClickAdd(filled, failed, o) ==
  /\ view = "direct_student_crud"
  /\ ds.addForm
  /\ \E a \in {DS_AddPart(cache, failed, ds)} :
     \E rest \in {DS_UpdPart(a, failed, ds)} :
     LET payload == Put(Put(Put(Put(EmptyPayload, "sname", <<"name">>), "email", <<"email">>),
                            "gurukulId", a.ss.gid), "milestoneId", a.ss.mid)
         req == Request("POST", <<"/students">>, payload)
         res == direct_api_call("POST", o)
     IN IF ~a.ss.addForm
        THEN /\ ds' = a.ss /\ cache' = a.cache
             /\ last' = [NoLast EXCEPT !.op = "ds_add_gone"]
        ELSE IF ~filled \/ a.ss.gid = None
        THEN /\ ds' = rest.ss /\ cache' = rest.cache
             /\ last' = [NoLast EXCEPT !.op = "ds_add", !.notice = "warning"]
        ELSE IF res.status = 201
        THEN \E r \in {DS_Page(cache_clear(MarkStale(a.cache)), failed, a.ss)} :
                /\ ds' = r.ss /\ cache' = r.cache
                /\ last' = Sent("ds_add", req, "success", TRUE)
        ELSE /\ ds' = rest.ss /\ cache' = rest.cache
             /\ last' = Sent("ds_add", req, IF res.status = 409 THEN "warning" ELSE "error", FALSE)
  /\ UNCHANGED <<view, db, us, tl, tp, gw, cr>>

\* the student selector and the two selectors of the update form
DS_Select(which, value, failed) ==
  /\ view = "direct_student_crud"
  /\ value \in Range(CASE which = "student" -> ds.sOpts
                       [] which = "ug"      -> ds.ugOpts
                       [] OTHER             -> ds.umOpts)
  /\ value # ds[which]
  /\ \E r \in {DS_Page(cache, failed, [ds EXCEPT ![which] = value])} :
        ds' = r.ss /\ cache' = r.cache
  /\ last' = [NoLast EXCEPT !.op = "ds_select_" \o which]
  /\ UNCHANGED <<view, db, us, tl, tp, gw, cr>>

\* "Update Student" and "Delete Student" of the selected student
DS_ClickUpdate(filled, failed, o) ==
  /\ view = "direct_student_crud"
  /\ ds.updForm
  /\ \E p \in {DS_Page(cache, failed, ds)} :
     LET payload == Put(Put(Put(Put(EmptyPayload, "sname", <<"name">>), "email", <<"email">>),
                            "gurukulId", p.ss.finalG), "milestoneId", p.ss.finalM)
         req == Request("PUT", <<"/students/", Str(p.ss.sid[1])>>, payload)
         res == direct_api_call("PUT", o)
     IN IF ~p.ss.updForm
        THEN /\ ds' = p.ss /\ cache' = p.cache
             /\ last' = [NoLast EXCEPT !.op = "ds_update_gone"]
        ELSE IF ~filled
        THEN /\ ds' = p.ss /\ cache' = p.cache
             /\ last' = [NoLast EXCEPT !.op = "ds_update", !.notice = "warning"]
        ELSE IF res.status = 200
        THEN \E r \in {DS_Page(cache_clear(MarkStale(p.cache)), failed, p.ss)} :
                /\ ds' = r.ss /\ cache' = r.cache
                /\ last' = Sent("ds_update", req, "success", TRUE)
        ELSE /\ ds' = p.ss /\ cache' = p.cache
             /\ last' = Sent("ds_update", req, IF res.status = 409 THEN "warning" ELSE "error", FALSE)
  /\ UNCHANGED <<view, db, us, tl, tp, gw, cr>>

DS_ClickDelete(failed, o) ==
  /\ view = "direct_student_crud"
  /\ ds.updForm
  /\ \E p \in {DS_Page(cache, failed, ds)} :
     LET req == Request("DELETE", <<"/students/", Str(p.ss.sid[1])>>, EmptyPayload)
         res == direct_api_call("DELETE", o)
     IN IF ~p.ss.updForm
        THEN /\ ds' = p.ss /\ cache' = p.cache
             /\ last' = [NoLast EXCEPT !.op = "ds_delete_gone"]
        ELSE IF res.status = 204
        THEN \E r \in {DS_Page(cache_clear(MarkStale(p.cache)), failed,
                              [p.ss EXCEPT !.sid = None])} :
                /\ ds' = r.ss /\ cache' = r.cache
                /\ last' = Sent("ds_delete", req, "success", TRUE)
        ELSE /\ ds' = p.ss /\ cache' = p.cache
             /\ last' = Sent("ds_delete", req, "error", FALSE)
  /\ UNCHANGED <<view, db, us, tl, tp, gw, cr>>

\* the level or the subject selectbox of the topics-by-level view
TL_Select(which, value, failed, keyed) ==
  /\ view = "topics_by_level_page"
  /\ value \in Range(IF which = "level" THEN tl.lOpts ELSE tl.sOpts)
  /\ value # tl[which]
  /\ tl' = TL_Page(Fetched(failed), [tl EXCEPT ![which] = value], keyed)
  /\ last' = [NoLast EXCEPT !.op = "tl_select_" \o which]
  /\ UNCHANGED <<view, db, cache, us, ds, tp, gw, cr>>

\* "Select Teacher to Manage Assignments For"
UT_SelectTeacher(value, failed, keyed) ==
  /\ view = "u_teachers_page"
  /\ value \in Range(tp.tOpts)
  /\ value # tp.teacher
  /\ tp' = UT_Page(Fetched(failed), [tp EXCEPT !.teacher = value], keyed)
  /\ last' = [NoLast EXCEPT !.op = "ut_select_teacher"]
  /\ UNCHANGED <<view, db, cache, us, ds, tl, gw, cr>>

\* "Update All Assignments" with selection chosen in the form: the form
\* delivers the selection with the click, the script builds the id list
\* and update_user_with_assignments sends PUT /users/:id
UT_Submit(selection, failed, o) ==
  /\ view = "u_teachers_page"
  /\ tp.form
  /\ IsSelection(selection, tp.opts)
  /\ \E lists \in {Fetched(failed)} :
     \E st \in {UT_Page(lists, [tp EXCEPT !.sel = selection], TRUE)} :
     LET ids == UT_PayloadIds(UT_Available(lists.subjects), st.sel)
         req == Request("PUT", <<"/users/", Str(st.tid[1])>>,
                        Put(EmptyPayload, "subject_ids", ids))
     IN IF ~st.form
        THEN /\ tp' = st
             /\ last' = [NoLast EXCEPT !.op = "ut_update_gone"]
        ELSE IF RequestsCallOk(o)
        THEN /\ tp' = UT_Page(lists, st, TRUE)
             /\ last' = [Sent("ut_update", req, "success", TRUE) EXCEPT !.picked = st.sel]
        ELSE /\ tp' = st
             /\ last' = [Sent("ut_update", req, "error", FALSE) EXCEPT !.picked = st.sel]
  /\ cache' = IF last'.ok THEN MarkStale(cache) ELSE cache
  /\ UNCHANGED <<view, db, us, ds, tl, gw, cr>>

\* "Select Teacher for Update"
DT_SelectTeacher(value, failed) ==
  /\ view = "direct_teacher_crud"
  /\ value \in Range(tp.tOpts)
  /\ value # tp.teacher
  /\ \E r \in {DT_Page(cache, failed, [tp EXCEPT !.teacher = value])} :
        tp' = r.ss /\ cache' = r.cache
  /\ last' = [NoLast EXCEPT !.op = "dt_select_teacher"]
  /\ UNCHANGED <<view, db, us, ds, tl, gw, cr>>

\* "Update Teacher" with selection chosen in the form; the form clears on
\* submit, so its widgets are back at their defaults afterwards
DT_Submit(selection, filled, failed, o) ==
  /\ view = "direct_teacher_crud"
  /\ tp.form
  /\ IsSelection(selection, tp.opts)
  /\ \E p \in {DT_Page(cache, failed, [tp EXCEPT !.sel = selection])} :
     LET ids == DT_PayloadIds(Val(p.cache, "subjects"), p.ss.sel)
         req == Request("PUT", <<"/teachers/", Str(p.ss.tid[1])>>,
                        Put(Put(Put(EmptyPayload, "name", <<"name">>), "email", <<"email">>),
                            "subjectIds", ids))
         res == direct_api_call("PUT", o)
         cleared == [p.ss EXCEPT !.sel = p.ss.dflt]
     IN IF ~p.ss.form
        THEN /\ tp' = p.ss /\ cache' = p.cache
             /\ last' = [NoLast EXCEPT !.op = "dt_update_gone"]
        ELSE IF ~filled
        THEN /\ tp' = cleared /\ cache' = p.cache
             /\ last' = [NoLast EXCEPT !.op = "dt_update", !.notice = "warning"]
        ELSE IF res.status = 200
        THEN \E r \in {DT_Page(cache_clear(MarkStale(p.cache)), failed, cleared)} :
                /\ tp' = r.ss /\ cache' = r.cache
                /\ last' = [Sent("dt_update", req, "success", TRUE)
                              EXCEPT !.picked = p.ss.sel, !.o = Some(o)]
        ELSE /\ tp' = cleared /\ cache' = p.cache
             /\ last' = [Sent("dt_update", req,
                              IF res.status = 409 THEN "warning" ELSE "error", FALSE)
                           EXCEPT !.picked = p.ss.sel, !.o = Some(o)]
  /\ UNCHANGED <<view, db, us, ds, tl, gw, cr>>

\* "Create Gurukul" submitted with name in the text input
GK_Create(name, failed, o) ==
  /\ view = "gurukuls_page"
  /\ last' = IF name = "" THEN Refused("gk_create", "warning", [gname |-> name])
             ELSE Answered("gk_create",
                           Request("POST", <<"/gurukul">>, Put(EmptyPayload, "gname", name)),
                           o, RequestsCallOk(o), [gname |-> name])
  /\ cache' = IF last'.ok THEN MarkStale(cache) ELSE cache
  /\ cr' = GK_Page(Fetched(failed), cr)
  /\ UNCHANGED <<view, db, us, ds, tl, tp, gw>>

\* one of the two selectboxes of the Gurukul page changes
GK_Select(which, value, failed) ==
  /\ view = "gurukuls_page"
  /\ value \in Range(cr.gkOpts)
  /\ cr' = GK_Page(Fetched(failed),
                   IF which = "update" THEN [cr EXCEPT !.gkUpd = value]
                   ELSE [cr EXCEPT !.gkDel = value])
  /\ last' = [NoLast EXCEPT !.op = "gk_select"]
  /\ UNCHANGED <<view, db, cache, us, ds, tl, tp, gw>>

\* what "Update Gurukul" does with the selected id and the typed name
GK_UpdateResult(gid, current, name, o) ==
  IF gid = None \/ name = ""
  THEN Refused("gk_update", "warning", [gname |-> name, current |-> current])
  ELSE Answered("gk_update",
                Request("PUT", <<"/gurukul/", Str(gid[1])>>, Put(EmptyPayload, "gname", name)),
                o, RequestsCallOk(o), [gname |-> name, current |-> current])

\* "Update Gurukul" submitted; the form is rendered while Gurukuls are listed
GK_SubmitUpdate(name, failed, o) ==
  /\ view = "gurukuls_page"
  /\ cr.gkOpts # << >>
  /\ \E w \in {GK_Page(Fetched(failed), cr)} :
       /\ cr' = w
       /\ last' = IF w.gkOpts = << >> THEN [NoLast EXCEPT !.op = "gk_update"]
                  ELSE GK_UpdateResult(
                         GK_IdOf(Fetched(failed).gurukuls, w.gkUpd),
                         GK_CurrentName(Fetched(failed).gurukuls,
                                        GK_IdOf(Fetched(failed).gurukuls, w.gkUpd)),
                         name, o)
  /\ cache' = IF last'.ok THEN MarkStale(cache) ELSE cache
  /\ UNCHANGED <<view, db, us, ds, tl, tp, gw>>

\* "Delete Gurukul" clicked: the id is stored for confirmation, no request
GK_ClickDelete(failed) ==
  /\ view = "gurukuls_page"
  /\ cr.gkOpts # << >>
  /\ \E w \in {GK_Page(Fetched(failed), cr)} :
       /\ cr' = IF w.gkOpts # << >> /\ GK_IdOf(Fetched(failed).gurukuls, w.gkDel) # None
                THEN [w EXCEPT !.confirm = GK_IdOf(Fetched(failed).gurukuls, w.gkDel)]
                ELSE w
       /\ last' = IF w.gkOpts = << >> THEN [NoLast EXCEPT !.op = "gk_delete"]
                  ELSE Refused("gk_delete", "warning", [gid |-> w.gkDel])
  /\ UNCHANGED <<view, db, cache, us, ds, tl, tp, gw>>

\* "Confirm Deletion" clicked: it is on the page only while the stored id
\* is the selected one, and the click counts only if this run renders it
GK_ConfirmDelete(failed, o) ==
  /\ view = "gurukuls_page"
  /\ GK_ConfirmShown(db.gurukuls, cr)
  /\ \E w \in {GK_Page(Fetched(failed), cr)} :
       IF ~GK_ConfirmShown(Fetched(failed).gurukuls, w)
       THEN /\ cr' = w
            /\ last' = [NoLast EXCEPT !.op = "gk_confirm"]
       ELSE /\ last' = Answered("gk_confirm",
                         Request("DELETE",
                                 <<"/gurukul/",
                                   Str(GK_IdOf(Fetched(failed).gurukuls, w.gkDel)[1])>>,
                                 EmptyPayload),
                         o, delete_call_ok(o), [gid |-> w.gkDel])
            /\ cr' = IF delete_call_ok(o) THEN [w EXCEPT !.confirm = None] ELSE w
  /\ cache' = IF last'.ok THEN MarkStale(cache) ELSE cache
  /\ UNCHANGED <<view, db, us, ds, tl, tp, gw>>

\* one of the three selectboxes outside the forms of the topics page changes
TM_Select(which, value, failed) ==
  /\ view = "topics_page"
  /\ \/ which = "create" /\ value \in Range(cr.tSubjOpts)
     \/ which = "filter" /\ value \in Range(cr.tSubjOpts) /\ cr.tuSubj # None
     \/ which = "topic" /\ value \in Range(cr.tuTopicOpts)
  /\ cr' = TM_Page(Fetched(failed),
                   CASE which = "create" -> [cr EXCEPT !.tcSubj = value]
                     [] which = "filter" -> [cr EXCEPT !.tuSubj = value]
                     [] OTHER -> [cr EXCEPT !.tuTopic = value])
  /\ last' = [NoLast EXCEPT !.op = "tm_select"]
  /\ UNCHANGED <<view, db, cache, us, ds, tl, tp, gw>>

\* "Create Topic" submitted
TM_SubmitCreate(tname, image, failed, o) ==
  /\ view = "topics_page"
  /\ cr.tSubjOpts # << >>
  /\ \E w \in {TM_Page(Fetched(failed), cr)} :
       /\ cr' = w
       /\ last' = IF w.tSubjOpts = << >> THEN [NoLast EXCEPT !.op = "tm_create"]
                  ELSE TM_CreateResult(Fetched(failed).topics, TM_IdOf(w.tcSubj),
                                       tname, image, o)
  /\ cache' = IF last'.ok THEN MarkStale(cache) ELSE cache
  /\ UNCHANGED <<view, db, us, ds, tl, tp, gw>>

\* "Update Topic" submitted with the parent selectbox of the form at choice
TM_SubmitUpdate(tname, image, choice, failed, o) ==
  /\ view = "topics_page"
  /\ choice \in Range(cr.tuNewOpts)
  /\ \E w \in {TM_Page(Fetched(failed), cr)} :
       /\ cr' = w
       /\ last' = IF w.tuNewOpts = << >> THEN [NoLast EXCEPT !.op = "tm_update"]
                  ELSE \* the form is that of the selected topic
                    LET cur == TM_Current(Fetched(failed).topics,
                                          TM_TopicIdOf(TM_Filtered(Fetched(failed).topics,
                                                                   TM_IdOf(w.tuSubj)),
                                                       w.tuTopic))[1]
                    IN TM_UpdateResult(Fetched(failed).topics, cur, tname,
                                       TM_NewSubid(selectbox(w.tuNewOpts, choice, 1), cur),
                                       image, o)
  /\ cache' = IF last'.ok THEN MarkStale(cache) ELSE cache
  /\ UNCHANGED <<view, db, us, ds, tl, tp, gw>>

\* one of the two selectboxes outside the forms of the offerings page changes
OF_Select(which, value, failed) ==
  /\ view = "offerings_page"
  /\ \/ which = "create" /\ value \in Range(cr.ocOpts)
     \/ which = "update" /\ value \in Range(cr.ouOpts)
  /\ cr' = OF_Page(Fetched(failed),
                   IF which = "create" THEN [cr EXCEPT !.ocGur = value]
                   ELSE [cr EXCEPT !.ouOff = value])
  /\ last' = [NoLast EXCEPT !.op = "of_select"]
  /\ UNCHANGED <<view, db, cache, us, ds, tl, tp, gw>>

\* "Create Offering" submitted with gtype chosen in the form; with backend
\* the answer is the backend's and the offering it created is kept
OF_SubmitCreate(gtype, failed, o, backend) ==
  /\ view = "offerings_page"
  /\ gtype \in Range(cr.ocGtypes)
  /\ \E w \in {OF_Page(Fetched(failed), cr)} :
       /\ last' = IF w.ocOpts = << >> THEN [NoLast EXCEPT !.op = "of_create"]
                  ELSE OF_CreateResult(Fetched(failed).offerings, OF_GidOf(w.ocGur),
                                       OF_NewGtype(w.ocGtypes, gtype), o)
       /\ IF backend /\ last'.req # None
          THEN /\ Len(db.offerings) < MaxOfferings
               /\ o \in BackendAnswers(db.offerings, last'.req[1].payload)
               /\ db' = [db EXCEPT !.offerings =
                           BackendOfferings(db.offerings, last'.req[1].payload, o)]
               \* st.rerun() after a success; the message stays after a failure
               /\ cr' = IF last'.ok THEN OF_Page([Fetched(failed) EXCEPT !.offerings =
                                                    IF "offerings" \in failed THEN << >>
                                                    ELSE db'.offerings], w)
                        ELSE w
          ELSE /\ db' = db
               /\ cr' = w
  /\ cache' = IF last'.ok THEN MarkStale(cache) ELSE cache
  /\ UNCHANGED <<view, us, ds, tl, tp, gw>>

\* "Update Offering" submitted with the Gurukul and gtype chosen in the form
OF_SubmitUpdate(choice, gtype, failed, o) ==
  /\ view = "offerings_page"
  /\ choice \in Range(cr.ouGurOpts)
  /\ \E w \in {OF_Page(Fetched(failed), cr)} :
       /\ cr' = w
       /\ last' = IF w.ouOpts = << >> THEN [NoLast EXCEPT !.op = "of_update"]
                  ELSE OF_UpdateResult(Fetched(failed).offerings,
                                       OF_Current(Fetched(failed), w.ouOff),
                                       OF_GidOf(selectbox(w.ouGurOpts, choice, 1)), gtype, o)
  /\ cache' = IF last'.ok THEN MarkStale(cache) ELSE cache
  /\ UNCHANGED <<view, db, us, ds, tl, tp, gw>>

\* one of the five selectboxes outside the forms of the milestones page
\* changes
ML_Select(which, value, failed) ==
  /\ view = "milestones_page"
  /\ \/ which \in {"mcGur", "muGur"} /\ value \in Range(cr.mGurOpts)
     \/ which = "mcOff" /\ value \in Range(cr.mcOffOpts)
     \/ which = "muOff" /\ value \in Range(cr.muOffOpts)
     \/ which = "muMil" /\ value \in Range(cr.muMilOpts)
  /\ which = "muGur" => cr.muGur # None
  /\ cr' = ML_Page(Fetched(failed),
                   CASE which = "mcGur" -> [cr EXCEPT !.mcGur = value]
                     [] which = "muGur" -> [cr EXCEPT !.muGur = value]
                     [] which = "mcOff" -> [cr EXCEPT !.mcOff = value]
                     [] which = "muOff" -> [cr EXCEPT !.muOff = value]
                     [] OTHER -> [cr EXCEPT !.muMil = value])
  /\ last' = [NoLast EXCEPT !.op = "ml_select"]
  /\ UNCHANGED <<view, db, cache, us, ds, tl, tp, gw>>

\* "Create Milestone" submitted with class and level chosen in the form
ML_SubmitCreate(class, level, failed, o) ==
  /\ view = "milestones_page"
  /\ level \in Range(cr.mcLevels)
  /\ \E w \in {ML_Page(Fetched(failed), cr)} :
       /\ cr' = w
       /\ last' = IF w.mcOffOpts = << >> THEN [NoLast EXCEPT !.op = "ml_create"]
                  ELSE ML_CreateResult(Fetched(failed), ML_OidOf(w.mcOff), class,
                                       OF_NewGtype(w.mcLevels, level), o)
  /\ cache' = IF last'.ok THEN MarkStale(cache) ELSE cache
  /\ UNCHANGED <<view, db, us, ds, tl, tp, gw>>

\* "Update Milestone" submitted with class and level chosen in the form
ML_SubmitUpdate(class, level, failed, o) ==
  /\ view = "milestones_page"
  /\ level \in Range(cr.muLevels)
  /\ \E w \in {ML_Page(Fetched(failed), cr)} :
       /\ cr' = w
       /\ last' = IF w.muMilOpts = << >> THEN [NoLast EXCEPT !.op = "ml_update"]
                  ELSE ML_UpdateResult(Fetched(failed),
                                       ML_Current(Fetched(failed).milestones, w.muMil),
                                       class, OF_NewGtype(w.muLevels, level), o)
  /\ cache' = IF last'.ok THEN MarkStale(cache) ELSE cache
  /\ UNCHANGED <<view, db, us, ds, tl, tp, gw>>

GwIdle == [method |-> "GET", outcome |-> CHOOSE o \in Outcomes : TRUE,
           result |-> NoResult, called |-> FALSE]

Init ==
  /\ view = "admin_dashboard"
  /\ \E f \in Placements :
       db = [students |-> AllStudentUsers, gurukuls |-> AllGurukuls,
             offerings |-> AllOfferings, milestones |-> MilestonesFor(f),
             dstudents |-> AllDirectStudents, subjects |-> AllSubjects,
             topics |-> AllTopics, teachers |-> AllTeacherUsers,
             dteachers |-> AllDirectTeachers]
  /\ cache = NoCache
  /\ us = US_Blank
  /\ ds = DS_Blank
  /\ tl = TL_Blank
  /\ tp = TP_Blank
  /\ last = NoLast
  /\ gw = GwIdle
  /\ cr = CR_Blank

Next ==
  \/ \E v \in ChainViews, failed \in FetchFailures : set_view(v, failed)
  \/ \E which \in {"student", "gurukul", "offering", "milestone"},
        value \in Range(us.sOpts) \cup Range(us.gOpts) \cup Range(us.oOpts) \cup Range(us.mOpts),
        failed \in FetchFailures : US_Select(which, value, failed)
  \/ \E failed \in FetchFailures, o \in PageOutcomes :
        US_ClickAssign(failed, o)
  \/ CacheExpire
  \/ \E name \in Range(ds.gOpts), failed \in FetchFailures : DS_SelectAddGurukul(name, failed)
  \/ \E label \in Range(ds.mOpts), failed \in FetchFailures : DS_SelectAddMilestone(label, failed)
  \/ \E filled \in BOOLEAN, failed \in FetchFailures, o \in PageOutcomes :
        DS_ClickAdd(filled, failed, o)
  \/ \E which \in {"student", "ug", "um"},
        value \in Range(ds.sOpts) \cup Range(ds.ugOpts) \cup Range(ds.umOpts),
        failed \in FetchFailures : DS_Select(which, value, failed)
  \/ \E filled \in BOOLEAN, failed \in FetchFailures, o \in PageOutcomes :
        DS_ClickUpdate(filled, failed, o)
  \/ \E failed \in FetchFailures, o \in PageOutcomes :
        DS_ClickDelete(failed, o)
  \/ \E which \in {"level", "subject"}, value \in Range(tl.lOpts) \cup Range(tl.sOpts),
        failed \in FetchFailures, keyed \in BOOLEAN : TL_Select(which, value, failed, keyed)
  \/ \E name \in GkNames, failed \in FetchFailures, o \in PageOutcomes :
        GK_Create(name, failed, o)

Spec == Init /\ [][Next]_vars

\* ------------------------------------------------------------------------
\* Teacher specification: the two teacher pages and the navigation
\* between them
\* ------------------------------------------------------------------------

InitTeachers ==
  /\ Init
  /\ db.milestones = MilestonesFor([i \in Mids |-> ((i - 1) % 3) + 1])

NextTeachers ==
  \/ \E v \in TeacherViews, failed \in FetchFailures : set_view(v, failed)
  \/ CacheExpire
  \/ \E value \in Range(tp.tOpts), failed \in FetchFailures, keyed \in BOOLEAN :
        UT_SelectTeacher(value, failed, keyed)
  \/ \E selection \in Selections(tp.opts), failed \in FetchFailures, o \in PageOutcomes :
        UT_Submit(selection, failed, o)
  \/ \E value \in Range(tp.tOpts), failed \in FetchFailures : DT_SelectTeacher(value, failed)
  \/ \E selection \in Selections(tp.opts), filled \in BOOLEAN, failed \in FetchFailures,
        o \in PageOutcomes : DT_Submit(selection, filled, failed, o)

SpecTeachers == InitTeachers /\ [][NextTeachers]_vars

\* ------------------------------------------------------------------------
\* Form specification: the pages that create, update and delete Gurukuls,
\* topics, offerings and milestones
\* ------------------------------------------------------------------------

\* Gurukuls 1 and 2 with their offerings, subjects 1 and 3 with their topics
InitCrud ==
  /\ view = "admin_dashboard"
  /\ db = [students |-> AllStudentUsers, gurukuls |-> SubSeq(AllGurukuls, 1, 2),
           offerings |-> AllOfferings,
           milestones |-> MilestonesFor([i \in Mids |-> ((i - 1) % 2) + 1]),
           dstudents |-> AllDirectStudents,
           subjects |-> SelectSeqBy(AllSubjects, {x \in Range(AllSubjects) : x.subid \in {1, 3}}),
           topics |-> AllTopics, teachers |-> AllTeacherUsers,
           dteachers |-> AllDirectTeachers]
  /\ cache = NoCache
  /\ us = US_Blank
  /\ ds = DS_Blank
  /\ tl = TL_Blank
  /\ tp = TP_Blank
  /\ last = NoLast
  /\ gw = GwIdle
  /\ cr = CR_Blank

TopicFailures == {{}, {"topics"}, ListNames}

OfferingFailures == {{}, {"offerings"}, ListNames}

MilestoneFailures == {{}, {"milestones"}, ListNames}

NextCrud ==
  \/ \E v \in CrudViews, failed \in FetchFailures : set_view(v, failed)
  \/ \E name \in GkNames, failed \in FetchFailures, o \in CrudOutcomes :
        GK_Create(name, failed, o)
  \/ \E which \in {"update", "delete"}, value \in Range(cr.gkOpts), failed \in FetchFailures :
        GK_Select(which, value, failed)
  \/ \E name \in GkNames, failed \in FetchFailures, o \in CrudOutcomes :
        GK_SubmitUpdate(name, failed, o)
  \/ \E failed \in FetchFailures : GK_ClickDelete(failed)
  \/ \E failed \in FetchFailures, o \in CrudOutcomes : GK_ConfirmDelete(failed, o)
  \/ \E which \in {"create", "filter", "topic"},
        value \in Range(cr.tSubjOpts) \cup Range(cr.tuTopicOpts),
        failed \in TopicFailures : TM_Select(which, value, failed)
  \/ \E tname \in TopicNames, image \in ImageUrls, failed \in TopicFailures, o \in CrudOutcomes :
        TM_SubmitCreate(tname, image, failed, o)
  \/ \E tname \in TopicNames, image \in ImageUrls, choice \in Range(cr.tuNewOpts),
        failed \in TopicFailures, o \in CrudOutcomes :
        TM_SubmitUpdate(tname, image, choice, failed, o)
  \/ \E which \in {"create", "update"}, value \in Range(cr.ocOpts) \cup Range(cr.ouOpts),
        failed \in OfferingFailures : OF_Select(which, value, failed)
  \/ \E gtype \in Range(cr.ocGtypes), failed \in OfferingFailures, o \in CrudOutcomes :
        OF_SubmitCreate(gtype, failed, o, FALSE)
  \/ \E choice \in Range(cr.ouGurOpts), gtype \in Range(ALL_GTYPES),
        failed \in OfferingFailures, o \in CrudOutcomes :
        OF_SubmitUpdate(choice, gtype, failed, o)
  \/ \E which \in {"mcGur", "mcOff", "muGur", "muOff", "muMil"},
        value \in Range(cr.mGurOpts) \cup Range(cr.mcOffOpts) \cup Range(cr.muOffOpts)
                   \cup Range(cr.muMilOpts),
        failed \in MilestoneFailures : ML_Select(which, value, failed)
  \/ \E class \in Classes, level \in Range(cr.mcLevels), failed \in MilestoneFailures,
        o \in CrudOutcomes : ML_SubmitCreate(class, level, failed, o)
  \/ \E class \in Classes, level \in Range(cr.muLevels), failed \in MilestoneFailures,
        o \in CrudOutcomes : ML_SubmitUpdate(class, level, failed, o)

SpecCrud == InitCrud /\ [][NextCrud]_vars

\* ------------------------------------------------------------------------
\* Offering specification: the offerings page against a backend that keeps
\* the offerings it creates
\* ------------------------------------------------------------------------

NextOfferings ==
  \/ \E v \in {"admin_dashboard", "offerings_page"}, failed \in OfferingFailures :
        set_view(v, failed)
  \/ \E which \in {"create", "update"}, value \in Range(cr.ocOpts) \cup Range(cr.ouOpts),
        failed \in OfferingFailures : OF_Select(which, value, failed)
  \/ \E gtype \in Range(cr.ocGtypes), failed \in OfferingFailures, o \in CrudOutcomes :
        OF_SubmitCreate(gtype, failed, o, TRUE)

SpecOfferings == InitCrud /\ [][NextOfferings]_vars

\* ------------------------------------------------------------------------
\* Gateway specification: every method against every transport outcome
\* ------------------------------------------------------------------------

InitGateway ==
  /\ gw \in [method : Methods, outcome : Outcomes, result : {NoResult}, called : {FALSE}]
  /\ view = "admin_dashboard"
  /\ db = [students |-> << >>, gurukuls |-> << >>, offerings |-> << >>, milestones |-> << >>,
           dstudents |-> << >>, subjects |-> << >>, topics |-> << >>, teachers |-> << >>,
           dteachers |-> << >>]
  /\ cache = NoCache
  /\ us = US_Blank
  /\ ds = DS_Blank
  /\ tl = TL_Blank
  /\ tp = TP_Blank
  /\ last = NoLast
  /\ cr = CR_Blank

GatewayCall ==
  /\ ~gw.called
  /\ gw' = [gw EXCEPT !.result = direct_api_call(gw.method, gw.outcome), !.called = TRUE]
  /\ UNCHANGED <<view, db, cache, us, ds, tl, tp, last, cr>>

NextGateway == GatewayCall

SpecGateway == InitGateway /\ [][NextGateway]_vars

\* ------------------------------------------------------------------------
\* Properties of the gateway
\* ------------------------------------------------------------------------

\* C1: direct_api_call never raises to its caller: for every method,
\* supported or not, and every transport outcome it returns a
\* (statusCode, body) pair with an HTTP status code
C1_NeverRaises ==
  gw.called => /\ ~gw.result.raised
               /\ gw.result.status \in 100..599

\* an unexpected transport error (neither connection failure nor timeout)
\* went through the gateway and came back as a pair
C1_Witness ==
  /\ gw.called
  /\ gw.method = "DELETE"
  /\ gw.outcome.kind = "exception"
  /\ gw.outcome.class = "TooManyRedirects"
  /\ gw.result.status = 500

C3_Original ==
  (view = "u_students_page" /\ us.gurukul # None) =>
    LET offered == {RegexId(l, ", MID: ").id : l \in Range(us.mOpts) \ {NoneMilestone}}
        gid == SplitId(us.gurukul, " (ID: ").id
    IN IF us.gurukul = NoneGurukul THEN offered = {}
       ELSE offered = {m.mid : m \in {x \in Range(db.milestones) :
                                        OfferingOf(x.oid).gid = gid}}

\* C3 (amended): where an Offering selector sits between Gurukul and
\* milestone, the milestone dropdown offers exactly the milestones of the
\* selected Offering, which is an Offering of the selected Gurukul; the
\* add form of the direct student page, which has no Offering selector,
\* offers exactly the milestones of the selected Gurukul once they are
\* fetched; with Gurukul "None" no offering and no milestone is offered
C3_GrandchildOptions ==
  /\ (view = "u_students_page" /\ us.gurukul # None) =>
       LET offered == {RegexId(l, ", MID: ").id : l \in Range(us.mOpts) \ {NoneMilestone}}
           gid == SplitId(us.gurukul, " (ID: ").id
           oid == SplitId(us.offering, " (OID: ").id
       IN IF us.gurukul = NoneGurukul THEN us.oOpts = << >> /\ us.mOpts = << >>
          ELSE /\ us.offering # None
               /\ OfferingOf(oid).gid = gid
               /\ offered = {m.mid : m \in {x \in Range(db.milestones) : x.oid = oid}}
  /\ (/\ view = "direct_student_crud" /\ ds.addForm /\ ds.gid # None
      /\ cache[ByGurukulKey(ds.gid[1])] # None
      /\ Val(cache, ByGurukulKey(ds.gid[1])) # << >>) =>
       LET offered == {RegexId(l, ", ID: ").id : l \in Range(ds.mOpts) \ {SelectMilestone}}
       IN offered = {m.mid : m \in {x \in Range(db.milestones) :
                                      OfferingOf(x.oid).gid = ds.gid[1]}}
  /\ (view = "direct_student_crud" /\ ds.updForm /\ ds.ug = NoneGurukul) =>
       ds.umOpts = <<NoneMilestone>>

\* the Gurukul was just changed to one with milestones under two
\* offerings: the dropdown shows those of the selected offering only
C3_Witness ==
  /\ view = "u_students_page"
  /\ last.op = "us_select_gurukul"
  /\ us.gurukul \notin {None, NoneGurukul}
  /\ Len(us.mOpts) > 1
  /\ LET offered == {RegexId(l, ", MID: ").id : l \in Range(us.mOpts) \ {NoneMilestone}}
         gid == SplitId(us.gurukul, " (ID: ").id
     IN offered # {m.mid : m \in {x \in Range(db.milestones) : OfferingOf(x.oid).gid = gid}}

C6_Original ==
  (view = "u_students_page" /\ last.op = "us_assign" /\ us.gurukul = NoneGurukul) =>
    /\ last.req # None
    /\ last.req[1].payload = update_payload(None, None)

\* C7: every student payload sent carries both the Gurukul key and the
\* milestone key, and a "none" selection travels as an explicit null
C7_BothKeysPresent ==
  /\ (last.op = "us_assign" /\ last.req # None) =>
       /\ DOMAIN last.req[1].payload = {"gurukul_id", "milestone_id"}
       /\ us.milestone \in {None, NoneMilestone} => last.req[1].payload["milestone_id"] = None
  /\ (last.op \in {"ds_add", "ds_update"} /\ last.req # None) =>
       {"gurukulId", "milestoneId"} \subseteq DOMAIN last.req[1].payload
  /\ (last.op = "ds_update" /\ last.req # None /\ ds.updForm) =>
       /\ ds.ug = NoneGurukul => last.req[1].payload["gurukulId"] = None
       /\ ds.um = NoneMilestone => last.req[1].payload["milestoneId"] = None
  /\ (last.op = "ds_add" /\ last.req # None /\ ds.addForm /\ ds.mname = SelectMilestone) =>
       last.req[1].payload["milestoneId"] = None

\* an assignment with a Gurukul and milestone "None" was sent, the
\* milestone as null
C7_Witness ==
  /\ last.op = "us_assign"
  /\ last.req # None
  /\ us.milestone = NoneMilestone
  /\ last.req[1].payload["gurukul_id"] # None
  /\ last.req[1].payload["milestone_id"] = None

\* C8: no student payload carries a milestone id together with a null
\* Gurukul
C8_MilestoneImpliesGurukul ==
  /\ (last.op = "us_assign" /\ last.req # None) =>
       (last.req[1].payload["milestone_id"] # None =>
          last.req[1].payload["gurukul_id"] # None)
  /\ (last.op \in {"ds_add", "ds_update"} /\ last.req # None) =>
       (last.req[1].payload["milestoneId"] # None =>
          last.req[1].payload["gurukulId"] # None)

\* a student who has a milestone was sent with Gurukul and milestone null
\* after the Gurukul of the update form was set to "None"
C8_Witness ==
  /\ last.op = "ds_update"
  /\ last.req # None
  /\ ds.sid = Some(1)
  /\ ds.ug = NoneGurukul
  /\ last.req[1].payload["gurukulId"] = None
  /\ last.req[1].payload["milestoneId"] = None

\* ------------------------------------------------------------------------
\* Properties of the assignment replacers
\* ------------------------------------------------------------------------

\* C9: the id list of every teacher payload sent holds exactly the ids of
\* the subjects selected in the form, each once, whatever was submitted
\* or whichever teacher was selected before
C9_PayloadIsSelection ==
  (last.op \in {"ut_update", "dt_update"} /\ last.req # None) =>
    LET ids == IF last.op = "ut_update" THEN last.req[1].payload["subject_ids"]
               ELSE last.req[1].payload["subjectIds"]
        selected == {x.subid : x \in {y \in Range(db.subjects) :
                                        SubjectLabel(y) \in Range(last.picked)}}
    IN /\ Range(ids) = selected
       /\ Len(ids) = Cardinality(selected)
       /\ Len(ids) = Len(last.picked)

\* for the second teacher the two subjects that share name and level were
\* selected, the later one first, and their ids were sent in that order
C9_Witness ==
  /\ last.op = "ut_update"
  /\ last.req # None
  /\ tp.teacher = <<"tb", " (ID: ", "4", ")">>
  /\ last.picked = <<<<"SA", " (Level: ", "L1", ", ID: ", "2", ")">>,
                     <<"SA", " (Level: ", "L1", ", ID: ", "1", ")">>>>
  /\ last.req[1].payload["subject_ids"] = <<2, 1>>

\* ------------------------------------------------------------------------
\* Properties of the cache
\* ------------------------------------------------------------------------

SiblingNames(topics, subid, tid) ==
  {topics[i].tname : i \in {k \in 1..Len(topics) : topics[k].subid = subid /\ topics[k].tid # tid}}

\* C11: a topic form with its required fields filled is rejected as a
\* duplicate exactly when the submitted name is the name of another topic
\* of the same parent subject in the fetched list; a name no other sibling
\* has is let through, the topic's own unchanged name included
C11_DuplicateCheck ==
  /\ (last.op = "tm_create" /\ last.form # None /\ last.form[1].why # "required")
       => (last.form[1].why = "duplicate"
             <=> last.form[1].tname
                   \in SiblingNames(last.form[1].topics, last.form[1].subid[1], 0))
  /\ (last.op = "tm_update" /\ last.form # None /\ last.form[1].why # "required")
       => (last.form[1].why = "duplicate"
             <=> last.form[1].tname
                   \in SiblingNames(last.form[1].topics, last.form[1].subid,
                                    last.form[1].cur.tid))

\* a topic that has a sibling kept its own name in an update that was sent
C11_Witness ==
  /\ last.op = "tm_update"
  /\ last.form # None
  /\ last.form[1].why = "sent"
  /\ last.form[1].tname = last.form[1].cur.tname
  /\ last.form[1].subid = last.form[1].cur.subid
  /\ SiblingNames(last.form[1].topics, last.form[1].subid, last.form[1].cur.tid) # {}

\* the gtypes of the offerings of Gurukul gid in offerings, other than
\* offering oid (oid 0: no offering is left out)
SiblingGtypes(offerings, gid, oid) ==
  {offerings[i].gtype :
     i \in {k \in 1..Len(offerings) : offerings[k].gid = gid /\ offerings[k].oid # oid}}

\* the levels of the milestones of offering oid in milestones, other than
\* milestone mid (mid 0: no milestone is left out)
SiblingLevels(milestones, oid, mid) ==
  {milestones[i].level :
     i \in {k \in 1..Len(milestones) : milestones[k].oid = oid /\ milestones[k].mid # mid}}

\* the request of the last interaction, a create or an update of a topic,
\* a milestone or a new offering, carries a key no sibling in the fetched
\* list has
CheckedKey ==
  /\ last.op = "tm_create"
       => last.form[1].tname
            \notin SiblingNames(last.form[1].topics, last.form[1].subid[1], 0)
  /\ last.op = "tm_update"
       => last.form[1].tname
            \notin SiblingNames(last.form[1].topics, last.form[1].subid, last.form[1].cur.tid)
  /\ last.op = "of_create"
       => last.form[1].gtype[1]
            \notin SiblingGtypes(last.form[1].offerings, last.form[1].gid[1], 0)
  /\ last.op = "ml_create"
       => last.form[1].level[1]
            \notin SiblingLevels(last.form[1].lists.milestones, last.form[1].oid[1], 0)
  /\ last.op = "ml_update"
       => last.form[1].level[1]
            \notin SiblingLevels(last.form[1].lists.milestones, last.form[1].cur[1].oid,
                                 last.form[1].cur[1].mid)

TopicConflict ==
  /\ last.form # None
  /\ \/ /\ last.op = "tm_create"
        /\ last.form[1].why # "required"
        /\ last.form[1].tname
             \in SiblingNames(last.form[1].topics, last.form[1].subid[1], 0)
     \/ /\ last.op = "tm_update"
        /\ last.form[1].why # "required"
        /\ last.form[1].tname
             \in SiblingNames(last.form[1].topics, last.form[1].subid, last.form[1].cur.tid)

\* C13: when the duplicate check rejects the submitted value the page
\* shows the conflict as a warning and sends no create or update request
C13_RejectedNotSent ==
  TopicConflict => last.notice = "warning" /\ last.req = None /\ ~last.ok

\* a topic was to move to a subject that has a topic of the submitted name
C13_Witness ==
  /\ TopicConflict
  /\ last.op = "tm_update"
  /\ last.form[1].subid # last.form[1].cur.subid
  /\ last.notice = "warning"

\* ------------------------------------------------------------------------
\* Properties of deletion
\* ------------------------------------------------------------------------

\* C14: an interaction sends a DELETE only when an earlier, separate
\* interaction has stored the id of that entity for confirmation; a single
\* click on a delete button sends none
C14_DeleteAfterConfirm ==
  [][(last' # last /\ last'.req # None /\ last'.req[1].method = "DELETE")
       => /\ cr.confirm # None
          /\ last'.req[1].endpoint[2] = Str(cr.confirm[1])]_vars

\* ------------------------------------------------------------------------
\* Properties of the response handling
\* ------------------------------------------------------------------------

\* C15: the page reports a mutation as successful exactly when its
\* response has a 2xx status, the 204 with an empty body that answers a
\* delete included, and as failed otherwise
C15_SuccessIs2xx ==
  (/\ last.o # None
   /\ last.o[1].kind = "response"
   /\ last.o[1].json \/ (last.req[1].method = "DELETE" /\ last.o[1].status = 204))
    => (last.ok <=> (200 <= last.o[1].status /\ last.o[1].status < 300))

\* C16: a 409 that answers a create or an update is shown as a warning,
\* not as the error of the other failures
C16_ConflictIsWarning ==
  (/\ last.o # None
   /\ last.o[1].kind = "response"
   /\ last.o[1].status = 409
   /\ last.req[1].method \in {"POST", "PUT"})
    => last.notice = "warning"

\* ------------------------------------------------------------------------
\* Properties of the form validation
\* ------------------------------------------------------------------------

\* the last interaction submitted a form with a required text empty or a
\* required selection missing
RequiredMissing ==
  /\ last.form # None
  /\ \/ last.op \in {"gk_create", "gk_update"} /\ last.form[1].gname = ""
     \/ last.op \in {"tm_create", "tm_update"} /\ last.form[1].tname = ""
     \/ last.op = "tm_create" /\ last.form[1].subid = None
     \/ last.op = "of_create" /\ (last.form[1].gid = None \/ last.form[1].gtype = None)
     \/ last.op = "ml_create" /\ (last.form[1].oid = None \/ last.form[1].level = None)

\* C17: a submitted form that lacks a required text or a required parent
\* selection sends no request, and the page shows a warning
C17_InvalidNotSent ==
  RequiredMissing => last.req = None /\ last.notice = "warning" /\ ~last.ok

\* "Create Topic" was submitted with a subject selected and no name
C17_Witness ==
  /\ last.op = "tm_create"
  /\ last.form # None
  /\ last.form[1].tname = ""
  /\ last.form[1].subid # None
  /\ last.notice = "warning"

\* ------------------------------------------------------------------------
\* Properties of the offering and milestone forms
\* ------------------------------------------------------------------------

\* no two offerings of the backend have the same Gurukul and gtype
NoDuplicateOffering ==
  \A i, j \in 1..Len(db.offerings) :
    (db.offerings[i].gid = db.offerings[j].gid
       /\ db.offerings[i].gtype = db.offerings[j].gtype) => i = j

\* the interaction of this step asked for an offering the Gurukul has
DuplicateCreate ==
  /\ last' # last
  /\ last'.op = "of_create"
  /\ last'.req # None
  /\ last'.req[1].payload["gtype"]
       \in SiblingGtypes(db.offerings, last'.req[1].payload["gid"], 0)

\* C18: a create of an offering whose gtype the Gurukul already has is
\* refused and the page shows an error, and whatever creates were tried
\* no two offerings have the same Gurukul and gtype
C18_NoDuplicateOfferings ==
  /\ []NoDuplicateOffering
  /\ [][DuplicateCreate => (last'.notice = "error" /\ ~last'.ok /\ db' = db)]_vars

\* after an offering was created, a create for a gtype the Gurukul has was
\* answered with 409 and shown as an error
C18_Witness ==
  /\ last.op = "of_create"
  /\ last.req # None
  /\ last.o[1].status = 409
  /\ last.notice = "error"
  /\ Len(db.offerings) > Len(AllOfferings)
  /\ last.req[1].payload["gtype"]
       \in SiblingGtypes(db.offerings, last.req[1].payload["gid"], 0)

\* the levels of each gtype
LevelDomain ==
  [G1 |-> {"L1", "L2", "L3", "L4"}, G2 |-> {"L5", "L6", "L7", "L8"},
   G3 |-> {"L9", "L10", "L11", "L12"}, G4 |-> {"L13", "L14", "L15", "L16"}]

\* the gtype of offering oid in offerings
GtypeOf(offerings, oid) ==
  offerings[CHOOSE i \in 1..Len(offerings) : offerings[i].oid = oid].gtype

ChangedTopicFields ==
  {f \in {"tname", "subid", "image_url"} :
     \/ f = "tname" /\ last.form[1].tname # last.form[1].cur.tname
     \/ f = "subid" /\ last.form[1].subid # last.form[1].cur.subid
     \/ f = "image_url" /\ last.form[1].image # ""}

\* the fields of the submitted milestone form that differ from the milestone
ChangedMilestoneFields ==
  {f \in {"class", "level"} :
     \/ f = "class" /\ last.form[1].class # last.form[1].cur[1].class
     \/ f = "level" /\ last.form[1].level[1] # last.form[1].cur[1].level}

\* the fields of the submitted offering form that differ from the offering
ChangedOfferingFields ==
  {f \in {"gid", "gtype"} :
     \/ f = "gid" /\ last.form[1].gid[1] # last.form[1].cur[1].gid
     \/ f = "gtype" /\ last.form[1].gtype # last.form[1].cur[1].gtype}

WriteOps ==
  {"us_assign", "ds_add", "ds_update", "ds_delete", "ut_update", "dt_update",
   "gk_create", "gk_update", "gk_confirm", "tm_create", "tm_update",
   "of_create", "of_update", "ml_create", "ml_update"}

\* C21: a write is never retried automatically: an interaction sends at most
\* one mutation request, only a submit or confirm interaction sends one, and
\* after a failed write a step that is not a submit or confirm (a selection,
\* a navigation, a cache expiry) sends none
C21_NoAutomaticRetry ==
  /\ [](Len(last.req) <= 1 /\ (last.req # None => last.op \in WriteOps))
  /\ [][(last.req # None /\ ~last.ok /\ last'.op \notin WriteOps) => last'.req = None]_vars

C21_Witness ==
  /\ last.op = "ds_add"
  /\ Len(last.req) = 1
  /\ ~last.ok
  /\ last.notice = "error"

\* the failed request of the last interaction met a transport error
TransportError ==
  /\ last.req # None
  /\ ~last.ok
  /\ last.o # None
  /\ last.o[1].kind = "exception"

\* C22: when a mutation fails with a transport error the interaction leaves
\* the client state unchanged: the subjects selected in the update form of
\* the direct teacher page are still selected after the failed submit, and
\* the cached lists are the ones the page had before
C22_FailedWriteKeepsState ==
  [][(TransportError' /\ last'.op = "dt_update") =>
       /\ tp'.sel = last'.picked
       /\ tp'.teacher = tp.teacher
       /\ \A k \in CacheKeys : cache[k] # None => cache'[k] = cache[k]]_vars

\* C23: interaction state is scoped to one page visit: on arriving at a page
\* its selectors are in the state a first visit gives them, and on arriving
\* at the Gurukul page no delete confirmation stored on an earlier visit is
\* pending
C23_StateScopedToVisit ==
  last.op = "set_view" =>
    /\ \E failed \in FetchFailures :
          [cr EXCEPT !.confirm = None] = CR_Page(view, Fetched(failed), CR_Blank)
    /\ view = "gurukuls_page" => ~GK_ConfirmShown(db.gurukuls, cr)

\* ------------------------------------------------------------------------
\* Label specification: each dropdown's labels and the id its script
\* resolves from the selected label, over Gurukuls whose names may repeat
\* ------------------------------------------------------------------------

MaxNamed == 3

\* the Gurukul lists of MaxNamed Gurukuls named GA or GB
NamedGurukuls ==
  {[i \in 1..MaxNamed |-> [gid |-> i, gname |-> n[i]]] : n \in [1..MaxNamed -> {"GA", "GB"}]}

Dropdowns ==
  {"ds_add_gurukul", "ds_update_gurukul", "ds_add_milestone", "tm_create_subject",
   "gk_delete", "us_gurukul"}

\* the entities a dropdown lists
Listed(dropdown) ==
  CASE dropdown = "ds_add_milestone"  -> db.milestones
    [] dropdown = "tm_create_subject" -> db.subjects
    [] OTHER                          -> db.gurukuls

\* the id of the entity a label is built from
IdOfEntity(dropdown, e) ==
  CASE dropdown = "ds_add_milestone"  -> e.mid
    [] dropdown = "tm_create_subject" -> e.subid
    [] OTHER                          -> e.gid

\* the label the page builds for an entity
LabelOf(dropdown, e) ==
  CASE dropdown = "ds_add_milestone"  -> DS_MilestoneLabel(e)
    [] dropdown = "tm_create_subject" -> TM_SubjLabel(e)
    [] dropdown = "gk_delete"         -> GK_Label(e)
    [] dropdown = "us_gurukul"        -> US_GurukulLabel(e)
    [] OTHER                          -> DS_GurukulName(e)

\* the id the page's script resolves from the selected label
Resolved(dropdown, display) ==
  CASE dropdown = "ds_add_gurukul"    -> GidByName(db.gurukuls, display)
    [] dropdown = "ds_update_gurukul" -> FirstGidByName(db.gurukuls, display)
    [] dropdown = "ds_add_milestone"  -> MidByLabel(db.milestones, display)
    [] dropdown = "tm_create_subject" -> TM_IdOf(display)
    [] dropdown = "gk_delete"         -> GK_IdOf(db.gurukuls, display)
    [] OTHER -> IF SplitId(display, " (ID: ").ok
                THEN Some(SplitId(display, " (ID: ").id) ELSE None

InitLabels ==
  /\ view = "admin_dashboard"
  /\ \E f \in Placements, gs \in NamedGurukuls :
       db = [students |-> AllStudentUsers, gurukuls |-> gs,
             offerings |-> AllOfferings, milestones |-> MilestonesFor(f),
             dstudents |-> AllDirectStudents, subjects |-> AllSubjects,
             topics |-> AllTopics, teachers |-> AllTeacherUsers,
             dteachers |-> AllDirectTeachers]
  /\ cache = NoCache
  /\ us = US_Blank
  /\ ds = DS_Blank
  /\ tl = TL_Blank
  /\ tp = TP_Blank
  /\ last = NoLast
  /\ gw = GwIdle
  /\ cr = CR_Blank

\* option i of a dropdown is selected and the script resolves its id
SelectOption(dropdown, i) ==
  /\ i \in 1..Len(Listed(dropdown))
  /\ last' = [NoLast EXCEPT !.op = dropdown,
                            !.picked = LabelOf(dropdown, Listed(dropdown)[i]),
                            !.was = Some(IdOfEntity(dropdown, Listed(dropdown)[i])),
                            !.form = Some([id |-> Resolved(dropdown,
                                                   LabelOf(dropdown, Listed(dropdown)[i]))])]
  /\ UNCHANGED <<view, db, cache, us, ds, tl, tp, gw, cr>>

NextLabels == \E dropdown \in Dropdowns, i \in 1..4 : SelectOption(dropdown, i)

SpecLabels == InitLabels /\ [][NextLabels]_vars

\* C24: label-to-id round trip: for every option of a dropdown the id the
\* script resolves from the selected label is the id of the entity the label
\* was built from, also when two entities share a name
C24_LabelRoundTrip ==
  last.op \in Dropdowns => last.form[1].id = last.was

\* ------------------------------------------------------------------------
\* Properties of the milestone update form
\* ------------------------------------------------------------------------

\* C25: on milestone update the levels offered are exactly the levels of the
\* gtype of the milestone's offering minus the levels of the other
\* milestones of that offering, and the milestone's own level is among them
C25_UpdateLevels ==
  (view = "milestones_page" /\ cr.muMil # None) =>
    LET cur == ML_Current(db.milestones, cr.muMil)[1]
    IN /\ Range(cr.muLevels)
            = LevelDomain[GtypeOf(db.offerings, cur.oid)]
                \ SiblingLevels(db.milestones, cur.oid, cur.mid)
       /\ cur.level \in Range(cr.muLevels)

\* the selected milestone shares its offering with another milestone, whose
\* level is missing from the form
C25_Witness ==
  /\ view = "milestones_page"
  /\ cr.muMil # None
  /\ LET cur == ML_Current(db.milestones, cr.muMil)[1]
     IN /\ SiblingLevels(db.milestones, cur.oid, cur.mid) # {}
        /\ Len(cr.muLevels) = 3
        /\ cur.level \in Range(cr.muLevels)

\* ------------------------------------------------------------------------
\* Properties of the student payloads
\* ------------------------------------------------------------------------

\* milestone mid is a milestone of an offering of Gurukul gid
MilestoneOfGurukul(mid, gid) ==
  \E m \in Range(db.milestones), x \in Range(db.offerings) :
     m.mid = mid /\ m.oid = x.oid /\ x.gid = gid

\* C26: in every student create or assignment request a non-null milestone
\* id is the id of a milestone of the Gurukul whose id the same payload
\* carries, whatever selection changes came before
C26_MilestoneOfSubmittedGurukul ==
  /\ (last.op = "us_assign" /\ last.req # None
        /\ last.req[1].payload["milestone_id"] # None) =>
       /\ last.req[1].payload["gurukul_id"] # None
       /\ MilestoneOfGurukul(last.req[1].payload["milestone_id"][1],
                             last.req[1].payload["gurukul_id"][1])
  /\ (last.op \in {"ds_add", "ds_update"} /\ last.req # None
        /\ last.req[1].payload["milestoneId"] # None) =>
       /\ last.req[1].payload["gurukulId"] # None
       /\ MilestoneOfGurukul(last.req[1].payload["milestoneId"][1],
                             last.req[1].payload["gurukulId"][1])

\* a student assigned to Gurukul 1 was sent with Gurukul 2 and a milestone
\* of Gurukul 2 after the Gurukul of the update form was changed
C26_Witness ==
  /\ last.op = "ds_update"
  /\ last.req # None
  /\ ds.sid = Some(1)
  /\ last.req[1].payload["gurukulId"] = Some(2)
  /\ last.req[1].payload["milestoneId"] # None
  /\ MilestoneOfGurukul(last.req[1].payload["milestoneId"][1], 2)

\* ------------------------------------------------------------------------
\* Properties of the stored delete confirmation
\* ------------------------------------------------------------------------

C28_FailedFetchNotCached ==
  \A k \in CacheKeys : cache[k] # None => Val(cache, k) = Data(k)

\* ------------------------------------------------------------------------
\* Properties of the unchanged update
\* ------------------------------------------------------------------------

\* a topic or milestone update form was submitted with every field equal to
\* the entity's current value
UnchangedDetected ==
  /\ last.form # None
  /\ \/ last.op = "tm_update" /\ ChangedTopicFields = {}
     \/ /\ last.op = "ml_update"
        /\ last.form[1].cur # None
        /\ last.form[1].level # None
        /\ ChangedMilestoneFields = {}

\* a Gurukul or offering update form was submitted with every field equal
\* to the entity's current value
UnchangedUndetected ==
  /\ last.form # None
  /\ \/ last.op = "gk_update" /\ last.form[1].gname = last.form[1].current
     \/ /\ last.op = "of_update"
        /\ last.form[1].cur # None
        /\ last.form[1].gid # None
        /\ ChangedOfferingFields = {}

SelectedTeacher == CHOOSE t \in Range(db.teachers) : Some(t.userid) = tp.tid

\* C30: on the teacher assignment page every subject assigned to the
\* selected teacher is among the options of the form and preselected, and a
\* submit of the preselection sends exactly the teacher's subject ids
C30_CurrentPreselected ==
  /\ (/\ view = "u_teachers_page"
      /\ tp.tid # None
      /\ SelectedTeacher.user_role_link # None) =>
       /\ tp.form
       /\ \A i \in Range(SelectedTeacher.assigned_subjects) :
            \E x \in Range(db.subjects) :
               /\ x.subid = i
               /\ SubjectLabel(x) \in Range(tp.opts)
               /\ SubjectLabel(x) \in Range(tp.dflt)
  /\ (last.op = "ut_update" /\ last.req # None /\ last.picked = tp.dflt) =>
       Range(last.req[1].payload["subject_ids"]) = Range(SelectedTeacher.assigned_subjects)

====
